---- MODULE Spec2Model ----
(***************************************************************************)
(* TokenKit: the theme registry, its resolution cache, the inheritance     *)
(* merge and the alias resolver (src/src/core/ThemeKit.ts and the alias    *)
(* utilities of src/unnamed/part_001).                                     *)
(*                                                                         *)
(* A JavaScript string is a tuple of one-character strings, so that the    *)
(* alias pattern and the dot-path split are computed, not assumed.  A      *)
(* token value is a record [t, s, o]: t is the JavaScript kind, s the      *)
(* characters of a string, o the entries of an object in insertion order   *)
(* (Object.entries order), each entry [k |-> key, n |-> value].            *)
(***************************************************************************)
EXTENDS Integers, Sequences, FiniteSets, TLC

\* ------------------------------------------------------------------ values

Str(chars) == [t |-> "str", s |-> chars, o |-> <<>>]

Obj(entries) == [t |-> "obj", s |-> <<>>, o |-> entries]

Undefined == [t |-> "undefined", s |-> <<>>, o |-> <<>>]

\* null
Null == [t |-> "null", s |-> <<>>, o |-> <<>>]

\* an array, here of one string given by its characters
Arr(chars) == [t |-> "arr", s |-> chars, o |-> <<>>]

Entry(key, node) == [k |-> key, n |-> node]

\* value && typeof value === 'object' && !Array.isArray(value)
isPlainObject(value) == value.t = "obj"

\* Object.keys(obj), in insertion order
Keys(obj) == [i \in 1..Len(obj.o) |-> obj.o[i].k]

HasKey(obj, key) == \E i \in 1..Len(obj.o) : obj.o[i].k = key

\* obj[key]
Get(obj, key) ==
  IF obj.t = "obj" /\ HasKey(obj, key)
  THEN obj.o[CHOOSE i \in 1..Len(obj.o) : obj.o[i].k = key].n
  ELSE Undefined

\* obj[key] = node on a copy: an existing key keeps its place, a new one is appended
Set(obj, key, node) ==
  IF HasKey(obj, key)
  THEN Obj([i \in 1..Len(obj.o) |->
              IF obj.o[i].k = key THEN Entry(key, node) ELSE obj.o[i]])
  ELSE Obj(Append(obj.o, Entry(key, node)))

\* ------------------------------------------------------------------ aliases

\* ALIAS_PATTERN = /^\{([^}]+)\}$/
ALIAS_PATTERN(chars) ==
  /\ Len(chars) >= 3
  /\ chars[1] = "{"
  /\ chars[Len(chars)] = "}"
  /\ \A i \in 2..(Len(chars) - 1) : chars[i] # "}"

isAlias(value) == value.t = "str" /\ ALIAS_PATTERN(value.s)

\* the captured group of ALIAS_PATTERN
getAliasPath(alias) == SubSeq(alias.s, 2, Len(alias.s) - 1)

\* path.split('.')
RECURSIVE split(_)
split(chars) ==
  IF \A i \in 1..Len(chars) : chars[i] # "."
  THEN <<chars>>
  ELSE LET d == CHOOSE i \in 1..Len(chars) :
                  chars[i] = "." /\ \A j \in 1..(i - 1) : chars[j] # "."
       IN <<SubSeq(chars, 1, d - 1)>> \o split(SubSeq(chars, d + 1, Len(chars)))

\* the array index a key of one decimal digit stands for (-1 for any other key)
ArrayIndex(seg) ==
  LET digits == <<"0", "1", "2", "3", "4", "5", "6", "7", "8", "9">>
  IN IF Len(seg) = 1 /\ \E i \in 1..Len(digits) : digits[i] = seg[1]
     THEN (CHOOSE i \in 1..Len(digits) : digits[i] = seg[1]) - 1
     ELSE 0 - 1

\* current?.[key] for a key given by its characters; the keys of the objects of
\* the model are single characters. A string has its characters, and an array its
\* elements, under their indices
Index(current, seg) ==
  IF current.t = "obj" /\ Len(seg) = 1
  THEN Get(current, seg[1])
  ELSE IF current.t = "str" /\ ArrayIndex(seg) \in 0..(Len(current.s) - 1)
  THEN Str(<<current.s[ArrayIndex(seg) + 1]>>)
  ELSE IF current.t = "arr" /\ ArrayIndex(seg) = 0
  THEN Str(current.s)
  ELSE Undefined

\* path.split('.').reduce((current, key) => current?.[key], obj)
RECURSIVE reduce(_, _, _)
reduce(segs, i, current) ==
  IF i > Len(segs) THEN current ELSE reduce(segs, i + 1, Index(current, segs[i]))

getNestedValue(obj, path) == reduce(split(path), 1, obj)

\* path ? `${path}.${key}` : key
joinPath(path, key) == IF path = <<>> THEN <<key>> ELSE path \o <<".", key>>

\* JSON.parse(JSON.stringify(tokens)): strings and plain objects are rebuilt
\* entry by entry, in the same key order
RECURSIVE jsonClone(_)
jsonClone(value) ==
  IF value.t = "obj"
  THEN Obj([i \in 1..Len(value.o) |-> Entry(value.o[i].k, jsonClone(value.o[i].n))])
  ELSE value

\* a normal return of resolveValue, with the in-flight set it leaves behind
Returned(value, resolving) ==
  [ok |-> TRUE, val |-> value, err |-> "", at |-> <<>>, target |-> <<>>,
   resolving |-> resolving]

\* throw new Error(...) inside resolveValue: the kind, the path and the target
Thrown(kind, path, target, resolving) ==
  [ok |-> FALSE, val |-> Undefined, err |-> kind, at |-> path, target |-> target,
   resolving |-> resolving]

RECURSIVE resolveValue(_, _, _, _, _, _)
RECURSIVE resolveEntries(_, _, _, _, _, _, _, _)

\* a mutant of resolveValue: an alias is replaced by the value found at its target
\* as it is, without resolving that value in turn
resolveValueOneHop(resolved, maxDepth, resolving, value, path, depth) ==
  IF depth > maxDepth
  THEN Thrown("MaxDepth", path, <<>>, resolving)
  ELSE IF isAlias(value)
  THEN LET aliasPath == getAliasPath(value) IN
       IF aliasPath \in resolving
       THEN Thrown("Circular", path, aliasPath, resolving)
       ELSE LET resolvedValue == getNestedValue(resolved, aliasPath)
            IN IF resolvedValue = Undefined
               THEN Thrown("Unresolved", path, aliasPath, resolving \cup {path})
               ELSE Returned(resolvedValue, resolving)
  ELSE IF isPlainObject(value)
  THEN resolveEntries(resolved, maxDepth, resolving, value, path, depth, 1, Obj(<<>>))
  ELSE Returned(value, resolving)

\* a mutant of resolveValue: past maxDepth the value is returned as it is
\* instead of raising the max-depth error
resolveValueGivingUp(resolved, maxDepth, resolving, value, path, depth) ==
  IF depth > maxDepth
  THEN Returned(value, resolving)
  ELSE IF isAlias(value)
  THEN LET aliasPath == getAliasPath(value) IN
       IF aliasPath \in resolving
       THEN Thrown("Circular", path, aliasPath, resolving)
       ELSE LET inflight == resolving \cup {path}
                resolvedValue == getNestedValue(resolved, aliasPath)
            IN IF resolvedValue = Undefined
               THEN Thrown("Unresolved", path, aliasPath, inflight)
               ELSE LET final == resolveValue(resolved, maxDepth, inflight,
                                              resolvedValue, aliasPath, depth + 1)
                    IN IF final.ok
                       THEN Returned(final.val, final.resolving \ {path})
                       ELSE final
  ELSE IF isPlainObject(value)
  THEN resolveEntries(resolved, maxDepth, resolving, value, path, depth, 1, Obj(<<>>))
  ELSE Returned(value, resolving)

\* a mutant of resolveValue: an alias whose target is absent is left as it is
resolveValueKeepingUnknown(resolved, maxDepth, resolving, value, path, depth) ==
  IF depth > maxDepth
  THEN Thrown("MaxDepth", path, <<>>, resolving)
  ELSE IF isAlias(value)
  THEN LET aliasPath == getAliasPath(value) IN
       IF aliasPath \in resolving
       THEN Thrown("Circular", path, aliasPath, resolving)
       ELSE LET inflight == resolving \cup {path}
                resolvedValue == getNestedValue(resolved, aliasPath)
            IN IF resolvedValue = Undefined
               THEN Returned(value, resolving)
               ELSE LET final == resolveValue(resolved, maxDepth, inflight,
                                              resolvedValue, aliasPath, depth + 1)
                    IN IF final.ok
                       THEN Returned(final.val, final.resolving \ {path})
                       ELSE final
  ELSE IF isPlainObject(value)
  THEN resolveEntries(resolved, maxDepth, resolving, value, path, depth, 1, Obj(<<>>))
  ELSE Returned(value, resolving)

\* a mutant of resolveValue: the depth bound is reached one hop earlier
resolveValueStrictBound(resolved, maxDepth, resolving, value, path, depth) ==
  IF depth >= maxDepth
  THEN Thrown("MaxDepth", path, <<>>, resolving)
  ELSE IF isAlias(value)
  THEN LET aliasPath == getAliasPath(value) IN
       IF aliasPath \in resolving
       THEN Thrown("Circular", path, aliasPath, resolving)
       ELSE LET inflight == resolving \cup {path}
                resolvedValue == getNestedValue(resolved, aliasPath)
            IN IF resolvedValue = Undefined
               THEN Thrown("Unresolved", path, aliasPath, inflight)
               ELSE LET final == resolveValue(resolved, maxDepth, inflight,
                                              resolvedValue, aliasPath, depth + 1)
                    IN IF final.ok
                       THEN Returned(final.val, final.resolving \ {path})
                       ELSE final
  ELSE IF isPlainObject(value)
  THEN resolveEntries(resolved, maxDepth, resolving, value, path, depth, 1, Obj(<<>>))
  ELSE Returned(value, resolving)

\* a mutant of resolveEntries: the entries of an object below the root are copied
\* as they are
resolveEntriesRootOnly(resolved, maxDepth, resolving, value, path, depth, i, result) ==
  IF i > Len(value.o)
  THEN Returned(result, resolving)
  ELSE LET key == value.o[i].k
           r == IF path = <<>>
                THEN resolveValue(resolved, maxDepth, resolving, value.o[i].n,
                                  joinPath(path, key), depth)
                ELSE Returned(value.o[i].n, resolving)
       IN IF r.ok
          THEN resolveEntries(resolved, maxDepth, r.resolving, value, path, depth,
                              i + 1, Set(result, key, r.val))
          ELSE r

\* a mutant of resolveEntries: a top-level key that has been resolved is written
\* into the tree the later lookups read
resolveEntriesInPlace(resolved, maxDepth, resolving, value, path, depth, i, result) ==
  IF i > Len(value.o)
  THEN Returned(result, resolving)
  ELSE LET key == value.o[i].k
           r == resolveValue(resolved, maxDepth, resolving, value.o[i].n,
                             joinPath(path, key), depth)
       IN IF r.ok
          THEN resolveEntries(IF path = <<>> THEN Set(resolved, key, r.val) ELSE resolved,
                              maxDepth, r.resolving, value, path, depth,
                              i + 1, Set(result, key, r.val))
          ELSE r

\* resolveValue(value, path, depth) of resolveAliases, closed over the snapshot
\* `resolved`, maxDepth and the set `resolving`
resolveValue(resolved, maxDepth, resolving, value, path, depth) ==
  IF depth > maxDepth
  THEN Thrown("MaxDepth", path, <<>>, resolving)
  ELSE IF isAlias(value)
  THEN LET aliasPath == getAliasPath(value) IN
       IF aliasPath \in resolving
       THEN Thrown("Circular", path, aliasPath, resolving)
       ELSE LET inflight == resolving \cup {path}
                resolvedValue == getNestedValue(resolved, aliasPath)
            IN IF resolvedValue = Undefined
               THEN Thrown("Unresolved", path, aliasPath, inflight)
               ELSE LET final == resolveValue(resolved, maxDepth, inflight,
                                              resolvedValue, aliasPath, depth + 1)
                    IN IF final.ok
                       THEN Returned(final.val, final.resolving \ {path})
                       ELSE final
  ELSE IF isPlainObject(value)
  THEN resolveEntries(resolved, maxDepth, resolving, value, path, depth, 1, Obj(<<>>))
  ELSE Returned(value, resolving)

\* the for loop over Object.entries(value) of resolveValue, from entry i on
resolveEntries(resolved, maxDepth, resolving, value, path, depth, i, result) ==
  IF i > Len(value.o)
  THEN Returned(result, resolving)
  ELSE LET key == value.o[i].k
           r == resolveValue(resolved, maxDepth, resolving, value.o[i].n,
                             joinPath(path, key), depth)
       IN IF r.ok
          THEN resolveEntries(resolved, maxDepth, r.resolving, value, path, depth,
                              i + 1, Set(result, key, r.val))
          ELSE r

resolveAliases(tokens, maxDepth) ==
  resolveValue(jsonClone(tokens), maxDepth, {}, jsonClone(tokens), <<>>, 0)

\* resolveAliases run one step at a time. A frame is one call of resolveValue on
\* the call stack: its arguments and where it stands, entering its body ("enter"),
\* waiting for the call it made for the target of an alias ("alias"), in the for
\* loop before entry i with the result built so far ("entries"), or holding the
\* value it is about to return ("return")
Frame(value, path, depth) ==
  [value |-> value, path |-> path, depth |-> depth, pc |-> "enter", i |-> 1,
   result |-> Obj(<<>>)]

\* the top frame of the stack and the frames below it
Top(frames) == frames[Len(frames)]

Below(frames) == SubSeq(frames, 1, Len(frames) - 1)

\* an uncaught throw inside resolveValue ends the call of resolveAliases
RunThrown(kind, path, target, resolving) ==
  [frames |-> <<>>, resolving |-> resolving, ended |-> TRUE,
   result |-> Thrown(kind, path, target, resolving)]

RunOn(frames, resolving) ==
  [frames |-> frames, resolving |-> resolving, ended |-> FALSE, result |-> Undefined]

\* a call of resolveValue returns value to the frames that wait for it: to
\* resolveAliases itself, to "const finalValue = resolveValue(...)" followed by
\* resolving.delete(path), or to "result[key] = resolveValue(...)"
resolveValueReturn(frames, resolving, value) ==
  IF frames = <<>>
  THEN [frames |-> <<>>, resolving |-> resolving, ended |-> TRUE,
        result |-> Returned(value, resolving)]
  ELSE IF Top(frames).pc = "alias"
  THEN RunOn(Append(Below(frames), [Top(frames) EXCEPT !.pc = "return", !.result = value]),
             resolving \ {Top(frames).path})
  ELSE RunOn(Append(Below(frames),
                    [Top(frames) EXCEPT
                       !.result = Set(Top(frames).result,
                                      Top(frames).value.o[Top(frames).i].k, value),
                       !.i = Top(frames).i + 1]),
             resolving)

\* a mutant of resolveValueStep: the call made for the target of an alias is given
\* the depth of its caller
resolveValueStepSameDepth(run, resolved, maxDepth) ==
  LET f == Top(run.frames)
      rest == Below(run.frames)
  IN IF f.pc = "return"
     THEN resolveValueReturn(rest, run.resolving, f.result)
     ELSE IF f.pc = "entries"
     THEN IF f.i > Len(f.value.o)
          THEN resolveValueReturn(rest, run.resolving, f.result)
          ELSE RunOn(Append(run.frames,
                            Frame(f.value.o[f.i].n, joinPath(f.path, f.value.o[f.i].k),
                                  f.depth)),
                     run.resolving)
     ELSE IF f.depth > maxDepth
     THEN RunThrown("MaxDepth", f.path, <<>>, run.resolving)
     ELSE IF isAlias(f.value)
     THEN LET aliasPath == getAliasPath(f.value)
              resolvedValue == getNestedValue(resolved, aliasPath)
          IN IF aliasPath \in run.resolving
             THEN RunThrown("Circular", f.path, aliasPath, run.resolving)
             ELSE IF resolvedValue = Undefined
             THEN RunThrown("Unresolved", f.path, aliasPath, run.resolving \cup {f.path})
             ELSE RunOn(Append(rest, [f EXCEPT !.pc = "alias"])
                          \o <<Frame(resolvedValue, aliasPath, f.depth)>>,
                        run.resolving \cup {f.path})
     ELSE IF isPlainObject(f.value)
     THEN RunOn(Append(rest, [f EXCEPT !.pc = "entries"]), run.resolving)
     ELSE resolveValueReturn(rest, run.resolving, f.value)

\* one step of the call of resolveValue on top of the stack
resolveValueStep(run, resolved, maxDepth) ==
  LET f == Top(run.frames)
      rest == Below(run.frames)
  IN IF f.pc = "return"
     THEN resolveValueReturn(rest, run.resolving, f.result)
     ELSE IF f.pc = "entries"
     THEN IF f.i > Len(f.value.o)
          THEN resolveValueReturn(rest, run.resolving, f.result)
          ELSE RunOn(Append(run.frames,
                            Frame(f.value.o[f.i].n, joinPath(f.path, f.value.o[f.i].k),
                                  f.depth)),
                     run.resolving)
     ELSE IF f.depth > maxDepth
     THEN RunThrown("MaxDepth", f.path, <<>>, run.resolving)
     ELSE IF isAlias(f.value)
     THEN LET aliasPath == getAliasPath(f.value)
              resolvedValue == getNestedValue(resolved, aliasPath)
          IN IF aliasPath \in run.resolving
             THEN RunThrown("Circular", f.path, aliasPath, run.resolving)
             ELSE IF resolvedValue = Undefined
             THEN RunThrown("Unresolved", f.path, aliasPath, run.resolving \cup {f.path})
             ELSE RunOn(Append(rest, [f EXCEPT !.pc = "alias"])
                          \o <<Frame(resolvedValue, aliasPath, f.depth + 1)>>,
                        run.resolving \cup {f.path})
     ELSE IF isPlainObject(f.value)
     THEN RunOn(Append(rest, [f EXCEPT !.pc = "entries"]), run.resolving)
     ELSE resolveValueReturn(rest, run.resolving, f.value)

\* ------------------------------------------------------------------ merge

RECURSIVE mergeTokens(_, _)
RECURSIVE mergeEntries(_, _, _)

\* a mutant of mergeTokens: Object.assign, every key of override replaces
mergeTokensShallow(base, override) ==
  Obj([i \in 1..Len(base.o) |->
         IF HasKey(override, base.o[i].k)
         THEN Entry(base.o[i].k, Get(override, base.o[i].k))
         ELSE base.o[i]]
      \o SelectSeq(override.o, LAMBDA e : ~HasKey(base, e.k)))

\* a mutant of mergeTokens: a key of base is kept when override has it too
mergeTokensBaseWins(base, override) == mergeEntries(Obj(override.o), base, 1)

\* the for loop over Object.entries(override) of mergeTokens, from entry i on
mergeEntries(result, override, i) ==
  IF i > Len(override.o)
  THEN result
  ELSE LET key == override.o[i].k
           value == override.o[i].n
           baseValue == Get(result, key)
       IN mergeEntries(
            IF isPlainObject(value) /\ isPlainObject(baseValue)
            THEN Set(result, key, mergeTokens(baseValue, value))
            ELSE Set(result, key, value),
            override, i + 1)

mergeTokens(base, override) == mergeEntries(Obj(base.o), override, 1)

\* ------------------------------------------------------------------ bounds

\* how many of the trees of TokenPool the callers pass as tokens
NumTokens == 2

\* config.aliasing.maxDepth of the kits of the model
MaxDepth == 2

\* ------------------------------------------------------------------ inputs

\* '{' + path + '}'
Ref(path) == Str(<<"{">> \o path \o <<"}">>)

TokenPool ==
  << Obj(<<Entry("x", Str(<<"1">>)), Entry("y", Obj(<<Entry("z", Str(<<"1">>))>>)),
           Entry("v", Str(<<"1">>))>>),
     Obj(<<Entry("y", Ref(<<"x">>)), Entry("v", Str(<<"2">>))>>),
     Obj(<<Entry("x", Str(<<"2">>)), Entry("y", Obj(<<Entry("z", Ref(<<"x">>))>>))>>),
     Obj(<<Entry("y", Obj(<<Entry("z", Ref(<<"x">>)), Entry("w", Str(<<"2">>))>>))>>),
     Obj(<<Entry("x", Ref(<<"y", ".", "z">>)), Entry("y", Obj(<<Entry("z", Ref(<<"x">>))>>))>>) >>

Tokens == {TokenPool[i] : i \in 1..NumTokens}

\* the names themes are registered under, the two of them that the themes of
\* Spec use, and a name that never is registered
\* the token trees passed to switch as customTokens
CustomTokens == {TokenPool[i] : i \in DOMAIN TokenPool}

ThemeNames == {"a", "b", "c"}

CoreNames == {"a", "b"}

GhostName == "t"

AllNames == ThemeNames \cup {GhostName}

\* the dot-paths getToken is called with: the paths of the trees, paths with a
\* segment that no tree has, at the start, below an object and below a string, a
\* path that indexes a string, and the empty path
TokenPaths ==
  {<<"x">>, <<"y">>, <<"y", ".", "z">>, <<"v">>, <<"q">>, <<"q", ".", "z">>,
   <<"y", ".", "q">>, <<"x", ".", "q">>, <<"x", ".", "0">>, <<>>}

\* the lists prefetchThemes is called with (<<>>: no argument)
PrefetchLists ==
  {<<>>} \cup {<<n>> : n \in CoreNames \cup {GhostName}}
         \cup {<<n, m>> : n, m \in CoreNames}

\* the change listeners a caller may subscribe
ListenerIds == {"l1", "l2"}

\* ------------------------------------------------------------------ registry

\* ThemeConfig: extends = "" when the theme extends nothing
Theme(name, tokens, extends) == [name |-> name, tokens |-> tokens, extends |-> extends]

\* this.themes is the sequence of its entries in key order (Object.keys order)
HasTheme(reg, name) == \E i \in 1..Len(reg) : reg[i].name = name

\* this.themes[name], for a name that is registered
GetTheme(reg, name) == reg[CHOOSE i \in 1..Len(reg) : reg[i].name = name]

\* this.themes[theme.name] = theme
PutTheme(reg, theme) ==
  IF HasTheme(reg, theme.name)
  THEN [i \in 1..Len(reg) |-> IF reg[i].name = theme.name THEN theme ELSE reg[i]]
  ELSE Append(reg, theme)

\* delete this.themes[themeName]
RECURSIVE DeleteTheme(_, _)
DeleteTheme(reg, name) ==
  IF reg = <<>> THEN <<>>
  ELSE IF Head(reg).name = name THEN Tail(reg)
  ELSE <<Head(reg)>> \o DeleteTheme(Tail(reg), name)

\* Object.keys(this.themes)
getAvailableThemes(reg) == [i \in 1..Len(reg) |-> reg[i].name]

\* new Map(): no name has an entry (Map.get gives undefined)
EmptyCache == [n \in AllNames |-> Undefined]

\* a mutant of invalidateCache: the whole cache is cleared whatever the name
invalidateCacheWhole(cache, themeName) == [n \in AllNames |-> Undefined]

\* invalidateCache(themeName): the callers of the class always pass a name
invalidateCache(cache, themeName) ==
  IF themeName # "" THEN [cache EXCEPT ![themeName] = Undefined] ELSE EmptyCache

\* ------------------------------------------------------------------ resolveTokens

Resolved(tokens, cache) == [ok |-> TRUE, val |-> tokens, err |-> "", cache |-> cache]

Failed(kind, cache) == [ok |-> FALSE, val |-> Undefined, err |-> kind, cache |-> cache]

RECURSIVE resolveTokens(_, _, _, _, _)

\* a mutant of resolveTokens: the result of a registered theme is not stored
resolveTokensNotStoring(reg, cfg, cache, theme, stack) ==
  LET isRegisteredTheme == HasTheme(reg, theme.name) /\ GetTheme(reg, theme.name) = theme
      cached == cache[theme.name]
  IN IF isRegisteredTheme /\ cached # Undefined
     THEN Resolved(cached, cache)
     ELSE IF theme.name \in stack
     THEN Failed("RangeError", cache)
     ELSE LET own == Obj(theme.tokens.o)
              extended == theme.extends # "" /\ HasTheme(reg, theme.extends)
              parent == IF extended
                        THEN resolveTokens(reg, cfg, cache, GetTheme(reg, theme.extends),
                                           stack \cup {theme.name})
                        ELSE Resolved(Undefined, cache)
          IN IF ~parent.ok
             THEN parent
             ELSE LET merged == IF extended THEN mergeTokens(parent.val, own) ELSE own
                      tokens == IF cfg.aliasing
                                THEN resolveAliases(merged, cfg.maxDepth)
                                ELSE Returned(merged, {})
                  IN IF ~tokens.ok
                     THEN Failed(tokens.err, parent.cache)
                     ELSE Resolved(tokens.val, parent.cache)

\* a mutant of resolveTokens: the merged tokens go through resolveAliases whether
\* aliasing is enabled or not
resolveTokensAlwaysAliasing(reg, cfg, cache, theme, stack) ==
  LET isRegisteredTheme == HasTheme(reg, theme.name) /\ GetTheme(reg, theme.name) = theme
      cached == cache[theme.name]
  IN IF isRegisteredTheme /\ cached # Undefined
     THEN Resolved(cached, cache)
     ELSE IF theme.name \in stack
     THEN Failed("RangeError", cache)
     ELSE LET own == Obj(theme.tokens.o)
              extended == theme.extends # "" /\ HasTheme(reg, theme.extends)
              parent == IF extended
                        THEN resolveTokens(reg, cfg, cache, GetTheme(reg, theme.extends),
                                           stack \cup {theme.name})
                        ELSE Resolved(Undefined, cache)
          IN IF ~parent.ok
             THEN parent
             ELSE LET merged == IF extended THEN mergeTokens(parent.val, own) ELSE own
                      tokens == resolveAliases(merged, cfg.maxDepth)
                  IN IF ~tokens.ok
                     THEN Failed(tokens.err, parent.cache)
                     ELSE Resolved(tokens.val,
                                   IF isRegisteredTheme
                                   THEN [parent.cache EXCEPT ![theme.name] = tokens.val]
                                   ELSE parent.cache)

\* resolveTokens(theme) over the registry reg and the cache; stack holds the themes
\* whose resolution is in progress: re-entering one of them with the registry and
\* the cache unchanged repeats the same calls until the call stack overflows
resolveTokens(reg, cfg, cache, theme, stack) ==
  LET \* this.themes[theme.name] === theme: switch builds its own object only for
      \* a name that is not registered
      isRegisteredTheme == HasTheme(reg, theme.name) /\ GetTheme(reg, theme.name) = theme
      cached == cache[theme.name]
  IN IF isRegisteredTheme /\ cached # Undefined
     THEN Resolved(cached, cache)
     ELSE IF theme.name \in stack
     THEN Failed("RangeError", cache)
     ELSE LET own == Obj(theme.tokens.o)
              extended == theme.extends # "" /\ HasTheme(reg, theme.extends)
              parent == IF extended
                        THEN resolveTokens(reg, cfg, cache, GetTheme(reg, theme.extends),
                                           stack \cup {theme.name})
                        ELSE Resolved(Undefined, cache)
          IN IF ~parent.ok
             THEN parent
             ELSE LET merged == IF extended THEN mergeTokens(parent.val, own) ELSE own
                      tokens == IF cfg.aliasing
                                THEN resolveAliases(merged, cfg.maxDepth)
                                ELSE Returned(merged, {})
                  IN IF ~tokens.ok
                     THEN Failed(tokens.err, parent.cache)
                     ELSE Resolved(tokens.val,
                                   IF isRegisteredTheme
                                   THEN [parent.cache EXCEPT ![theme.name] = tokens.val]
                                   ELSE parent.cache)

\* ------------------------------------------------------------------ validation

Lower == {"a", "b", "c", "d", "e", "f", "g", "h", "i", "j", "k", "l", "m",
          "n", "o", "p", "q", "r", "s", "t", "u", "v", "w", "x", "y", "z"}

Upper == {"A", "B", "C", "D", "E", "F", "G", "H", "I", "J", "K", "L", "M",
          "N", "O", "P", "Q", "R", "S", "T", "U", "V", "W", "X", "Y", "Z"}

Digit == {"0", "1", "2", "3", "4", "5", "6", "7", "8", "9"}

\* [A-Fa-f0-9]
Hex == Digit \cup {"a", "b", "c", "d", "e", "f", "A", "B", "C", "D", "E", "F"}

\* the characters of the keys of the trees given to validateTokens
Spelling(key) ==
  CASE key = "colors" -> <<"c", "o", "l", "o", "r", "s">>
    [] key = "primary" -> <<"p", "r", "i", "m", "a", "r", "y">>
    [] key = "spacing" -> <<"s", "p", "a", "c", "i", "n", "g">>
    [] key = "md" -> <<"m", "d">>
    [] key = "Bad" -> <<"B", "a", "d">>
    [] key = "4px" -> <<"4", "p", "x">>
    [] key = "#fff" -> <<"#", "f", "f", "f">>
    [] key = "rgb(0)" -> <<"r", "g", "b", "(", "0", ")">>
    [] key = "0" -> <<"0">>

\* chars starts with prefix
StartsWith(chars, prefix) ==
  Len(chars) >= Len(prefix) /\ SubSeq(chars, 1, Len(prefix)) = prefix

\* where the match of a regular expression of the validate command ends when it
\* is tried at the start of chars (0: no match); every one of them is anchored
\* at the start, so no match begins anywhere else
\*   naming   /^[a-z][a-zA-Z0-9-_]*$/
\*   color    /^#([A-Fa-f0-9]{6}|[A-Fa-f0-9]{3})$|^rgb\(|^rgba\(/
\*   spacing  /^\d+(px|rem|em|%)$/
MatchEnd(re, chars) ==
  CASE re = "naming" ->
         IF /\ Len(chars) >= 1
            /\ chars[1] \in Lower
            /\ \A i \in 2..Len(chars) : chars[i] \in Lower \cup Upper \cup Digit \cup {"-", "_"}
         THEN Len(chars) ELSE 0
    [] re = "color" ->
         IF /\ Len(chars) \in {4, 7}
            /\ chars[1] = "#"
            /\ \A i \in 2..Len(chars) : chars[i] \in Hex
         THEN Len(chars)
         ELSE IF StartsWith(chars, <<"r", "g", "b", "(">>) THEN 4
         ELSE IF StartsWith(chars, <<"r", "g", "b", "a", "(">>) THEN 5
         ELSE 0
    [] re = "spacing" ->
         IF \E n \in 1..Len(chars) :
              /\ \A i \in 1..n : chars[i] \in Digit
              /\ SubSeq(chars, n + 1, Len(chars))
                   \in {<<"p", "x">>, <<"r", "e", "m">>, <<"e", "m">>, <<"%">>}
         THEN Len(chars) ELSE 0

\* a RegExp object: its expression, its g flag and its lastIndex
RegExp(re, global) == [re |-> re, global |-> global, lastIndex |-> 0]

\* pattern.test(key): whether it matches, and the RegExp object afterwards. With
\* the g flag the match is tried at lastIndex, which a match moves to the end of
\* the match and a miss resets to 0; without it lastIndex is neither read nor
\* written
test(pattern, chars) ==
  LET end == MatchEnd(pattern.re, chars)
  IN IF ~pattern.global
     THEN [ok |-> end > 0, pattern |-> pattern]
     ELSE IF pattern.lastIndex = 0 /\ end > 0
     THEN [ok |-> TRUE, pattern |-> [pattern EXCEPT !.lastIndex = end]]
     ELSE [ok |-> FALSE, pattern |-> [pattern EXCEPT !.lastIndex = 0]]

\* a ValidationRule; pattern is <<>> when the rule has none and message "" when
\* it is empty; given is FALSE for a null entry of the rules array
Rule(name, pattern, message, severity) ==
  [given |-> TRUE, name |-> name, pattern |-> pattern, message |-> message,
   severity |-> severity]

NullRule == [given |-> FALSE, name |-> "", pattern |-> <<>>, message |-> "",
             severity |-> ""]

\* `${fullPath}: ${rule.message}`
Violation(fullPath, message) == [at |-> fullPath, message |-> message]

\* Object.entries(obj) of validateKeys: the entries of an object, and for an array
\* its elements under their indices
entries(obj) ==
  IF obj.t = "arr" THEN <<Entry("0", Str(obj.s))>> ELSE obj.o

RECURSIVE validateKeys(_, _, _, _, _, _)

\* validateKeys(obj, path) of validateRule, from entry i of obj on: the errors
\* pushed so far and the rule's RegExp object are threaded through
validateKeys(pattern, message, errors, obj, path, i) ==
  IF obj.t \notin {"obj", "arr"} \/ i > Len(entries(obj))
  THEN [errors |-> errors, pattern |-> pattern]
  ELSE LET key == entries(obj)[i].k
           value == entries(obj)[i].n
           fullPath == joinPath(path, key)
           t == test(pattern, Spelling(key))
           own == IF t.ok THEN errors ELSE Append(errors, Violation(fullPath, message))
           nested == IF isPlainObject(value)
                     THEN validateKeys(t.pattern, message, own, value, fullPath, 1)
                     ELSE [errors |-> own, pattern |-> t.pattern]
       IN validateKeys(nested.pattern, message, nested.errors, obj, path, i + 1)

\* validateRule(tokens, rule): the violations, and the rule with its RegExp object
\* as the tests left it
validateRule(tokens, rule) ==
  IF ~rule.given \/ Len(rule.pattern) = 0 \/ rule.message = ""
  THEN [errors |-> <<>>, rule |-> rule]
  ELSE LET r == validateKeys(rule.pattern[1], rule.message, <<>>, tokens, <<>>, 1)
       IN [errors |-> r.errors, rule |-> [rule EXCEPT !.pattern = <<r.pattern>>]]

\* the for loop of validateTokens over this.config.validation.rules, from rule i on
RECURSIVE validateRules(_, _, _, _)
validateRules(tokens, rules, errors, i) ==
  IF i > Len(rules)
  THEN [errors |-> errors, rules |-> rules]
  ELSE IF ~rules[i].given
  THEN validateRules(tokens, rules, errors, i + 1)
  ELSE LET r == validateRule(tokens, rules[i])
       IN validateRules(tokens, [rules EXCEPT ![i] = r.rule], errors \o r.errors, i + 1)

\* !tokens || typeof tokens !== 'object'
notAnObject(tokens) == tokens.t \notin {"obj", "arr"}

\* a mutant of validateTokens: the misses of 'warning' rules are left out
validateTokensErrorsOnly(validation, tokens) ==
  IF ~validation.enabled
  THEN [valid |-> TRUE, errors |-> <<>>, rules |-> validation.rules]
  ELSE IF notAnObject(tokens)
  THEN [valid |-> FALSE, errors |-> <<Violation(<<>>, "Tokens must be a valid object")>>,
        rules |-> validation.rules]
  ELSE LET only == [i \in 1..Len(validation.rules) |->
                      IF validation.rules[i].severity = "warning"
                      THEN NullRule ELSE validation.rules[i]]
           r == validateRules(tokens, only, <<>>, 1)
       IN [valid |-> Len(r.errors) = 0, errors |-> r.errors, rules |-> validation.rules]

\* a mutant of validateTokens: the rules are applied whatever the argument is
validateTokensUnchecked(validation, tokens) ==
  IF ~validation.enabled
  THEN [valid |-> TRUE, errors |-> <<>>, rules |-> validation.rules]
  ELSE LET r == validateRules(tokens, validation.rules, <<>>, 1)
       IN [valid |-> Len(r.errors) = 0, errors |-> r.errors, rules |-> r.rules]

\* validateTokens(tokens) under this.config.validation: the result, and the rules
\* with their RegExp objects as the call left them
validateTokens(validation, tokens) ==
  IF ~validation.enabled
  THEN [valid |-> TRUE, errors |-> <<>>, rules |-> validation.rules]
  ELSE IF notAnObject(tokens)
  THEN [valid |-> FALSE, errors |-> <<Violation(<<>>, "Tokens must be a valid object")>>,
        rules |-> validation.rules]
  ELSE LET r == validateRules(tokens, validation.rules, <<>>, 1)
       IN [valid |-> Len(r.errors) = 0, errors |-> r.errors, rules |-> r.rules]

\* ------------------------------------------------------------------ the kit

VARIABLES
  themes,              \* this.themes, in key order
  currentTheme,        \* this.currentTheme
  resolvedTokenCache,  \* this.resolvedTokenCache
  listeners,           \* this.listeners, in insertion order
  config,              \* this.config, fixed by the constructor
  storage,             \* the persistence store's value under the key ("" = null)
  storeFails,          \* environment: the store's set throws
  everRegistered,      \* history: registerTheme has been called
  aliasCall,           \* a call of resolveAliases on its own: arguments and result
  validateCall,        \* the last call of validateTokens: arguments and result
  mergeCall,           \* the last call of mergeTokens: arguments and result
  resolveRun           \* a call of resolveAliases in progress: frames and in-flight set

vars == <<themes, currentTheme, resolvedTokenCache, listeners, config, storage,
          storeFails, everRegistered, aliasCall, validateCall, mergeCall, resolveRun>>

\* no call of resolveAliases is in progress
NoRun == [frames |-> <<>>, resolving |-> {}]

\* resolveAliases(tokens, maxDepth) called by a user of the alias utilities: the
\* arguments, whether the call has been made, and what it returned or threw
AliasCall(tokens, maxDepth, ran, result) ==
  [tokens |-> tokens, maxDepth |-> maxDepth, ran |-> ran, result |-> result]

\* no such call is made by the users of the kit
NoCall == AliasCall(Undefined, 0, FALSE, Returned(Undefined, {}))

\* the last validation: who ran it ("" nobody, "validateTokens" a caller of the
\* kit, "validateCommand" the command line), on which tokens, with the rules as
\* they were before the call, and what came out
ValidateCall(by, tokens, rules, result) ==
  [by |-> by, tokens |-> tokens, rules |-> rules, result |-> result]

\* no validation has been run
NoValidation == ValidateCall("", Undefined, <<>>, [valid |-> TRUE, errors |-> <<>>])

\* mergeTokens(base, override) called while a theme that extends another is
\* resolved: whether it ran, on what, and what it returned
MergeCall(ran, base, override, result) ==
  [ran |-> ran, base |-> base, override |-> override, result |-> result]

\* no merge has been run
NoMerge == MergeCall(FALSE, Undefined, Undefined, Undefined)

\* the part of the kit a call reads and writes
Kit == [themes |-> themes, currentTheme |-> currentTheme,
        cache |-> resolvedTokenCache, storage |-> storage, calls |-> <<>>]

\* what the collaborators do during one call: whether the store's set throws, and
\* which of the subscribed listeners (by position, 0 for none) throws when notified
Envs == [storeThrows : {storeFails}, throwAt : 0..Len(listeners)]

Done(k, ret) == [ok |-> TRUE, err |-> "", ret |-> ret, k |-> k]

Raised(k, kind) == [ok |-> FALSE, err |-> kind, ret |-> Undefined, k |-> k]

\* a mutant of persistTheme: the name is written only while the store holds none
persistThemeOnce(cfg, store, env, themeName) ==
  IF ~cfg.persistence \/ store # ""
  THEN [ok |-> TRUE, storage |-> store]
  ELSE IF env.storeThrows
  THEN [ok |-> cfg.storage # "custom", storage |-> store]
  ELSE [ok |-> TRUE, storage |-> themeName]

\* persistTheme(themeName): [ok, storage]
persistTheme(cfg, store, env, themeName) ==
  IF ~cfg.persistence
  THEN [ok |-> TRUE, storage |-> store]
  ELSE IF cfg.storage = "custom"
  THEN IF env.storeThrows
       THEN [ok |-> FALSE, storage |-> store]
       ELSE [ok |-> TRUE, storage |-> themeName]
  ELSE \* try { storageObj.setItem(key, themeName) } catch { }
       IF env.storeThrows
       THEN [ok |-> TRUE, storage |-> store]
       ELSE [ok |-> TRUE, storage |-> themeName]

\* this.listeners.forEach(listener => listener(themeName, resolvedTokens)) on the
\* kit k: the calls made, up to and including the listener that throws, each with
\* what the listener finds when it reads getCurrentTheme() and the store
notify(k, lst, env, themeName, resolvedTokens) ==
  LET n == IF env.throwAt \in 1..Len(lst) THEN env.throwAt ELSE Len(lst)
  IN [ok |-> ~(env.throwAt \in 1..Len(lst)),
      calls |-> [i \in 1..n |->
                   [listener |-> lst[i], theme |-> themeName, tokens |-> resolvedTokens,
                    active |-> k.currentTheme, stored |-> k.storage]]]

\* a mutant of switch: the theme built from customTokens is stored in the registry
switchRegistering(k, cfg, lst, env, themeName, customTokens) ==
  IF ~HasTheme(k.themes, themeName) /\ customTokens = Undefined
  THEN Raised(k, "NotFound")
  ELSE LET targetTheme == IF HasTheme(k.themes, themeName)
                          THEN GetTheme(k.themes, themeName)
                          ELSE Theme(themeName, customTokens, "")
           r == resolveTokens(k.themes, cfg, k.cache, targetTheme, {})
       IN IF ~r.ok
          THEN Raised([k EXCEPT !.cache = r.cache], r.err)
          ELSE LET p == persistTheme(cfg, k.storage, env, themeName)
                   k1 == [k EXCEPT !.themes = PutTheme(k.themes, targetTheme),
                                   !.cache = r.cache, !.currentTheme = themeName,
                                   !.storage = p.storage]
                   told == notify(k1, lst, env, themeName, r.val)
               IN IF ~p.ok
                  THEN Raised(k1, "Store")
                  ELSE IF ~told.ok
                  THEN Raised([k1 EXCEPT !.calls = k.calls \o told.calls], "Listener")
                  ELSE Done([k1 EXCEPT !.calls = k.calls \o told.calls], Undefined)

\* a mutant of switch: the active theme is set before the theme is looked up
switchSettingFirst(k, cfg, lst, env, themeName, customTokens) ==
  IF ~HasTheme(k.themes, themeName) /\ customTokens = Undefined
  THEN Raised([k EXCEPT !.currentTheme = themeName], "NotFound")
  ELSE LET targetTheme == IF HasTheme(k.themes, themeName)
                          THEN GetTheme(k.themes, themeName)
                          ELSE Theme(themeName, customTokens, "")
           r == resolveTokens(k.themes, cfg, k.cache, targetTheme, {})
       IN IF ~r.ok
          THEN Raised([k EXCEPT !.cache = r.cache], r.err)
          ELSE LET p == persistTheme(cfg, k.storage, env, themeName)
                   k1 == [k EXCEPT !.cache = r.cache, !.currentTheme = themeName,
                                   !.storage = p.storage]
                   told == notify(k1, lst, env, themeName, r.val)
               IN IF ~p.ok
                  THEN Raised(k1, "Store")
                  ELSE IF ~told.ok
                  THEN Raised([k1 EXCEPT !.calls = k.calls \o told.calls], "Listener")
                  ELSE Done([k1 EXCEPT !.calls = k.calls \o told.calls], Undefined)

\* a mutant of switch: the listeners are handed the theme's own tokens, unresolved
switchTellingOwnTokens(k, cfg, lst, env, themeName, customTokens) ==
  IF ~HasTheme(k.themes, themeName) /\ customTokens = Undefined
  THEN Raised(k, "NotFound")
  ELSE LET targetTheme == IF HasTheme(k.themes, themeName)
                          THEN GetTheme(k.themes, themeName)
                          ELSE Theme(themeName, customTokens, "")
           r == resolveTokens(k.themes, cfg, k.cache, targetTheme, {})
       IN IF ~r.ok
          THEN Raised([k EXCEPT !.cache = r.cache], r.err)
          ELSE LET p == persistTheme(cfg, k.storage, env, themeName)
                   k1 == [k EXCEPT !.cache = r.cache, !.currentTheme = themeName,
                                   !.storage = p.storage]
                   told == notify(k1, lst, env, themeName, targetTheme.tokens)
               IN IF ~p.ok
                  THEN Raised(k1, "Store")
                  ELSE IF ~told.ok
                  THEN Raised([k1 EXCEPT !.calls = k.calls \o told.calls], "Listener")
                  ELSE Done([k1 EXCEPT !.calls = k.calls \o told.calls], Undefined)

\* a mutant of switch: each listener is called in its own try/catch, so that the
\* listeners after one that throws are called too
switchIsolatingListeners(k, cfg, lst, env, themeName, customTokens) ==
  IF ~HasTheme(k.themes, themeName) /\ customTokens = Undefined
  THEN Raised(k, "NotFound")
  ELSE LET targetTheme == IF HasTheme(k.themes, themeName)
                          THEN GetTheme(k.themes, themeName)
                          ELSE Theme(themeName, customTokens, "")
           r == resolveTokens(k.themes, cfg, k.cache, targetTheme, {})
       IN IF ~r.ok
          THEN Raised([k EXCEPT !.cache = r.cache], r.err)
          ELSE LET p == persistTheme(cfg, k.storage, env, themeName)
                   k1 == [k EXCEPT !.cache = r.cache, !.currentTheme = themeName,
                                   !.storage = p.storage]
                   told == notify(k1, lst, [env EXCEPT !.throwAt = 0], themeName, r.val)
               IN IF ~p.ok
                  THEN Raised(k1, "Store")
                  ELSE Done([k1 EXCEPT !.calls = k.calls \o told.calls], Undefined)

\* a mutant of switch: the listeners are notified before the theme is made active
\* and persisted
switchNotifyingFirst(k, cfg, lst, env, themeName, customTokens) ==
  IF ~HasTheme(k.themes, themeName) /\ customTokens = Undefined
  THEN Raised(k, "NotFound")
  ELSE LET targetTheme == IF HasTheme(k.themes, themeName)
                          THEN GetTheme(k.themes, themeName)
                          ELSE Theme(themeName, customTokens, "")
           r == resolveTokens(k.themes, cfg, k.cache, targetTheme, {})
       IN IF ~r.ok
          THEN Raised([k EXCEPT !.cache = r.cache], r.err)
          ELSE LET p == persistTheme(cfg, k.storage, env, themeName)
                   k1 == [k EXCEPT !.cache = r.cache, !.currentTheme = themeName,
                                   !.storage = p.storage]
                   told == notify(k, lst, env, themeName, r.val)
               IN IF ~told.ok
                  THEN Raised([k EXCEPT !.cache = r.cache,
                                        !.calls = k.calls \o told.calls], "Listener")
                  ELSE IF ~p.ok
                  THEN Raised([k1 EXCEPT !.calls = k.calls \o told.calls], "Store")
                  ELSE Done([k1 EXCEPT !.calls = k.calls \o told.calls], Undefined)

\* switch(themeName, customTokens); customTokens = Undefined when not passed
switch(k, cfg, lst, env, themeName, customTokens) ==
  IF ~HasTheme(k.themes, themeName) /\ customTokens = Undefined
  THEN Raised(k, "NotFound")
  ELSE LET targetTheme == IF HasTheme(k.themes, themeName)
                          THEN GetTheme(k.themes, themeName)
                          ELSE Theme(themeName, customTokens, "")
           r == resolveTokens(k.themes, cfg, k.cache, targetTheme, {})
       IN IF ~r.ok
          THEN Raised([k EXCEPT !.cache = r.cache], r.err)
          ELSE LET p == persistTheme(cfg, k.storage, env, themeName)
                   k1 == [k EXCEPT !.cache = r.cache, !.currentTheme = themeName,
                                   !.storage = p.storage]
                   told == notify(k1, lst, env, themeName, r.val)
               IN IF ~p.ok
                  THEN Raised(k1, "Store")
                  ELSE IF ~told.ok
                  THEN Raised([k1 EXCEPT !.calls = k.calls \o told.calls], "Listener")
                  ELSE Done([k1 EXCEPT !.calls = k.calls \o told.calls], Undefined)

\* a mutant of notifyReentered: the switch a listener asks for runs after the
\* notification in progress has reached every listener
notifyReenteredDeferred(k, cfg, lst, env, themeName, resolvedTokens, at, inner) ==
  LET quiet == [env EXCEPT !.throwAt = 0]
      all == notify(k, lst, quiet, themeName, resolvedTokens).calls
  IN CHOOSE told \in
       {[ok |-> nested.ok, k |-> nested.k, calls |-> all \o nested.k.calls] :
          nested \in {switch([k EXCEPT !.calls = <<>>], cfg, lst, quiet, inner,
                             Undefined)}} :
       TRUE

\* this.listeners.forEach(listener => listener(themeName, resolvedTokens)) when the
\* listener at position `at` calls switch(inner) as it is notified and no listener
\* throws of its own: the listeners up to it are called, the nested switch runs to
\* its end on the kit as it is then, and forEach goes on with the listeners after
\* it, who find the kit as the nested switch left it; an error of the nested
\* switch leaves the listener and ends the notification
notifyReentered(k, cfg, lst, env, themeName, resolvedTokens, at, inner) ==
  LET quiet == [env EXCEPT !.throwAt = 0]
      before == notify(k, SubSeq(lst, 1, at), quiet, themeName, resolvedTokens).calls
  IN CHOOSE told \in
       {[ok |-> nested.ok,
         k |-> nested.k,
         calls |-> before \o nested.k.calls
                     \o (IF nested.ok
                         THEN notify(nested.k, SubSeq(lst, at + 1, Len(lst)), quiet,
                                     themeName, resolvedTokens).calls
                         ELSE <<>>)] :
          nested \in {switch([k EXCEPT !.calls = <<>>], cfg, lst, quiet, inner,
                             Undefined)}} :
       TRUE

\* switch(themeName, customTokens) during which the listener at position `at`
\* calls switch(inner)
switchReentered(k, cfg, lst, env, themeName, customTokens, at, inner) ==
  IF ~HasTheme(k.themes, themeName) /\ customTokens = Undefined
  THEN Raised(k, "NotFound")
  ELSE LET targetTheme == IF HasTheme(k.themes, themeName)
                          THEN GetTheme(k.themes, themeName)
                          ELSE Theme(themeName, customTokens, "")
           r == resolveTokens(k.themes, cfg, k.cache, targetTheme, {})
       IN IF ~r.ok
          THEN Raised([k EXCEPT !.cache = r.cache], r.err)
          ELSE LET p == persistTheme(cfg, k.storage, env, themeName)
                   k1 == [k EXCEPT !.cache = r.cache, !.currentTheme = themeName,
                                   !.storage = p.storage]
               IN IF ~p.ok
                  THEN Raised(k1, "Store")
                  ELSE CHOOSE out \in
                         {IF ~told.ok
                          THEN Raised([told.k EXCEPT !.calls = k.calls \o told.calls],
                                      "Listener")
                          ELSE Done([told.k EXCEPT !.calls = k.calls \o told.calls],
                                    Undefined) :
                            told \in {notifyReentered(k1, cfg, lst, env, themeName, r.val,
                                                      at, inner)}} :
                         TRUE

\* a mutant of registered: the name's cache entry is kept
registeredKeepingEntry(k, theme) == [k EXCEPT !.themes = PutTheme(k.themes, theme)]

\* the first two statements of registerTheme: the theme is stored under its name
\* and that name's cache entry is invalidated
registered(k, theme) ==
  [k EXCEPT !.themes = PutTheme(k.themes, theme),
            !.cache = invalidateCache(k.cache, theme.name)]

\* a mutant of registerTheme: registering the active theme switches to it again
registerThemeRefreshing(k, cfg, lst, env, theme) ==
  LET k1 == registered(k, theme)
  IN IF (Len(k1.themes) = 1 /\ k1.currentTheme = "") \/ k1.currentTheme = theme.name
     THEN switch(k1, cfg, lst, env, theme.name, Undefined)
     ELSE Done(k1, Undefined)

\* a mutant of registerTheme: the theme is activated whenever no theme is active,
\* however many themes are registered
registerThemeWheneverIdle(k, cfg, lst, env, theme) ==
  LET k1 == registered(k, theme)
  IN IF k1.currentTheme = ""
     THEN switch(k1, cfg, lst, env, theme.name, Undefined)
     ELSE Done(k1, Undefined)

\* registerTheme(theme)
registerTheme(k, cfg, lst, env, theme) ==
  LET k1 == registered(k, theme)
  IN IF Len(k1.themes) = 1 /\ k1.currentTheme = ""
     THEN switch(k1, cfg, lst, env, theme.name, Undefined)
     ELSE Done(k1, Undefined)

\* the first two statements of unregisterTheme for a registered name: the theme
\* is deleted and that name's cache entry is invalidated
unregistered(k, themeName) ==
  [k EXCEPT !.themes = DeleteTheme(k.themes, themeName),
            !.cache = invalidateCache(k.cache, themeName)]

\* a mutant of unregisterTheme: when the switch to the fallback fails the theme is
\* put back
unregisterThemeRollingBack(k, cfg, lst, env, themeName) ==
  IF HasTheme(k.themes, themeName)
  THEN LET k1 == unregistered(k, themeName)
           availableThemes == getAvailableThemes(k1.themes)
       IN IF k1.currentTheme = themeName /\ Len(availableThemes) > 0
          THEN LET r == switch(k1, cfg, lst, env, availableThemes[1], Undefined)
               IN IF r.ok THEN r ELSE Raised(k, r.err)
          ELSE Done(k1, Undefined)
  ELSE Done(k, Undefined)

\* a mutant of unregisterTheme: the fallback is the last remaining key
unregisterThemeLastKey(k, cfg, lst, env, themeName) ==
  IF HasTheme(k.themes, themeName)
  THEN LET k1 == unregistered(k, themeName)
           availableThemes == getAvailableThemes(k1.themes)
       IN IF k1.currentTheme = themeName /\ Len(availableThemes) > 0
          THEN switch(k1, cfg, lst, env, availableThemes[Len(availableThemes)], Undefined)
          ELSE Done(k1, Undefined)
  ELSE Done(k, Undefined)

\* unregisterTheme(themeName)
unregisterTheme(k, cfg, lst, env, themeName) ==
  IF HasTheme(k.themes, themeName)
  THEN LET k1 == unregistered(k, themeName)
           availableThemes == getAvailableThemes(k1.themes)
       IN IF k1.currentTheme = themeName /\ Len(availableThemes) > 0
          THEN switch(k1, cfg, lst, env, availableThemes[1], Undefined)
          ELSE Done(k1, Undefined)
  ELSE Done(k, Undefined)

\* getTokens(themeName); themeName = "" when not passed
getTokens(k, cfg, themeName) ==
  LET targetTheme == IF themeName # "" THEN themeName ELSE k.currentTheme
  IN IF targetTheme = "" \/ ~HasTheme(k.themes, targetTheme)
     THEN Done(k, Obj(<<>>))
     ELSE LET r == resolveTokens(k.themes, cfg, k.cache,
                                 GetTheme(k.themes, targetTheme), {})
          IN IF r.ok
             THEN Done([k EXCEPT !.cache = r.cache], r.val)
             ELSE Raised([k EXCEPT !.cache = r.cache], r.err)

\* getCurrentTokens()
getCurrentTokens(k, cfg) ==
  IF k.currentTheme = "" \/ ~HasTheme(k.themes, k.currentTheme)
  THEN Done(k, Obj(<<>>))
  ELSE LET r == resolveTokens(k.themes, cfg, k.cache,
                              GetTheme(k.themes, k.currentTheme), {})
       IN IF r.ok
          THEN Done([k EXCEPT !.cache = r.cache], r.val)
          ELSE Raised([k EXCEPT !.cache = r.cache], r.err)

\* getToken(path, themeName): this.getNestedValue(this.getTokens(themeName), path),
\* the same reduce over path.split('.') as getNestedValue of the alias resolver
getToken(k, cfg, path, themeName) ==
  LET r == getTokens(k, cfg, themeName)
  IN IF r.ok THEN Done(r.k, getNestedValue(r.ret, path)) ELSE r

RECURSIVE prefetchEach(_, _, _, _, _)

\* a mutant of prefetchEach: the first theme that fails to resolve ends the batch
prefetchEachAborting(reg, cfg, cache, targets, i) ==
  IF i > Len(targets)
  THEN cache
  ELSE IF HasTheme(reg, targets[i])
  THEN LET r == resolveTokens(reg, cfg, cache, GetTheme(reg, targets[i]), {})
       IN IF r.ok THEN prefetchEach(reg, cfg, r.cache, targets, i + 1) ELSE r.cache
  ELSE prefetchEach(reg, cfg, cache, targets, i + 1)

\* the forEach of prefetchThemes over targets, from position i on: the cache it leaves
prefetchEach(reg, cfg, cache, targets, i) ==
  IF i > Len(targets)
  THEN cache
  ELSE prefetchEach(reg, cfg,
         IF HasTheme(reg, targets[i])
         THEN \* try { this.resolveTokens(theme) } catch (error) { console.warn(...) }
              resolveTokens(reg, cfg, cache, GetTheme(reg, targets[i]), {}).cache
         ELSE cache,
         targets, i + 1)

\* getCurrentTheme()
getCurrentTheme(k) == k.currentTheme

\* prefetchThemes(themeNames); themeNames = <<>> when not passed or empty
prefetchThemes(k, cfg, themeNames) ==
  LET targets == IF Len(themeNames) > 0 THEN themeNames ELSE getAvailableThemes(k.themes)
  IN Done([k EXCEPT !.cache = prefetchEach(k.themes, cfg, k.cache, targets, 1)], Undefined)

\* this.listeners.add(listener): a Set keeps the first insertion
addThemeChangeListener(lst, listener) ==
  IF \E i \in 1..Len(lst) : lst[i] = listener THEN lst ELSE Append(lst, listener)

\* a mutant of the unsubscribe function: this.listeners.clear()
unsubscribeAll(lst, listener) == <<>>

\* the unsubscribe function: this.listeners.delete(listener)
RECURSIVE unsubscribe(_, _)
unsubscribe(lst, listener) ==
  IF lst = <<>> THEN <<>>
  ELSE IF Head(lst) = listener THEN Tail(lst)
  ELSE <<Head(lst)>> \o unsubscribe(Tail(lst), listener)

\* isDesignTokensObject(value): return this.isPlainObject(value)
isDesignTokensObject(value) == isPlainObject(value)

\* isTokenDictionary(value): a plain object all of whose values are plain objects
isTokenDictionary(value) ==
  /\ isPlainObject(value)
  /\ \A i \in 1..Len(value.o) : isDesignTokensObject(value.o[i].n)

\* Object.entries(tokensSource).forEach(([name, themeTokens]) =>
\*   this.registerTheme({ name, tokens: themeTokens })), from the i-th entry on
RECURSIVE registerEntries(_, _, _, _, _, _)
registerEntries(k, cfg, lst, env, tokensSource, i) ==
  IF i > Len(tokensSource.o) THEN Done(k, Undefined)
  ELSE LET r == registerTheme(k, cfg, lst, env,
                              Theme(tokensSource.o[i].k, tokensSource.o[i].n, ""))
       IN IF r.ok THEN registerEntries(r.k, cfg, lst, env, tokensSource, i + 1) ELSE r

\* bootstrapTokens(tokensSource) of a kit whose defaultTheme option is defaultTheme
bootstrapTokens(k, cfg, lst, env, tokensSource, defaultTheme) ==
  IF tokensSource = Undefined
  THEN Done(k, Undefined)
  ELSE IF tokensSource.t = "str"
  THEN Done(k, Undefined)
  ELSE IF isDesignTokensObject(tokensSource)
  THEN registerTheme(k, cfg, lst, env,
                     Theme(IF defaultTheme # "" THEN defaultTheme ELSE "default",
                           tokensSource, ""))
  ELSE IF isTokenDictionary(tokensSource)
  THEN registerEntries(k, cfg, lst, env, tokensSource, 1)
  ELSE Done(k, Undefined)

\* getPersistedTheme(): the stored name, "" for null
getPersistedTheme(cfg, store) == IF ~cfg.persistence THEN "" ELSE store

\* loadInitialTheme()
loadInitialTheme(k, cfg, lst, env, defaultTheme) ==
  LET savedTheme == getPersistedTheme(cfg, k.storage)
  IN IF savedTheme # "" /\ HasTheme(k.themes, savedTheme)
     THEN switch(k, cfg, lst, env, savedTheme, Undefined)
     ELSE IF defaultTheme # "" /\ HasTheme(k.themes, defaultTheme)
     THEN switch(k, cfg, lst, env, defaultTheme, Undefined)
     ELSE Done(k, Undefined)

\* the fields of a kit before its constructor's body runs, over a store that
\* holds the name store
NewKit(store) ==
  [themes |-> <<>>, currentTheme |-> "", cache |-> EmptyCache, storage |-> store,
   calls |-> <<>>]

\* new ThemeKit({ ...cfg, tokens: tokensSource, defaultTheme }): there is no
\* listener yet; if (tokens) this.bootstrapTokens(tokens), which returns at once
\* without tokens, and for its outcome b, unless it threw, this.loadInitialTheme()
constructor(cfg, store, env, tokensSource, defaultTheme) ==
  CHOOSE r \in
    {IF b.ok THEN loadInitialTheme(b.k, cfg, <<>>, env, defaultTheme) ELSE b :
       b \in {bootstrapTokens(NewKit(store), cfg, <<>>, env, tokensSource, defaultTheme)}} :
    TRUE

\* ------------------------------------------------------------------ actions

\* the kit after a call that ended with r
Becomes(r) ==
  /\ themes' = r.k.themes
  /\ currentTheme' = r.k.currentTheme
  /\ resolvedTokenCache' = r.k.cache
  /\ storage' = r.k.storage

\* new ThemeKit(config) without tokens: nothing is registered, loadInitialTheme
\* finds no theme to switch to
Init ==
  /\ themes = <<>>
  /\ currentTheme = ""
  /\ resolvedTokenCache = EmptyCache
  /\ listeners = <<>>
  /\ config \in [aliasing : BOOLEAN, maxDepth : {MaxDepth}, persistence : {TRUE},
                 storage : {"localStorage"}]
  /\ storage = ""
  /\ storeFails = FALSE
  /\ everRegistered = FALSE
  /\ aliasCall = NoCall
  /\ validateCall = NoValidation
  /\ mergeCall = NoMerge
  /\ resolveRun = NoRun

\* registerTheme called with a name, tokens and an extends value of the given sets
RegisterTheme(names, trees, parents) ==
  \E name \in names, tokens \in trees, extends \in parents, env \in Envs :
    LET r == registerTheme(Kit, config, listeners, env, Theme(name, tokens, extends))
    IN /\ Becomes(r)
       /\ everRegistered' = TRUE
       /\ UNCHANGED <<listeners, config, storeFails, aliasCall, validateCall, mergeCall, resolveRun>>

UnregisterTheme(names) ==
  \E name \in names, env \in Envs :
    LET r == unregisterTheme(Kit, config, listeners, env, name)
    IN /\ Becomes(r)
       /\ UNCHANGED <<listeners, config, storeFails, everRegistered, aliasCall, validateCall, mergeCall, resolveRun>>

Switch(names, trees) ==
  \E name \in names, customTokens \in {Undefined} \cup trees, env \in Envs :
    LET r == switch(Kit, config, listeners, env, name, customTokens)
    IN /\ Becomes(r)
       /\ UNCHANGED <<listeners, config, storeFails, everRegistered, aliasCall, validateCall, mergeCall, resolveRun>>

GetTokens(names) ==
  \E name \in {""} \cup names :
    LET r == getTokens(Kit, config, name)
    IN /\ Becomes(r)
       /\ UNCHANGED <<listeners, config, storeFails, everRegistered, aliasCall, validateCall, mergeCall, resolveRun>>

GetToken(paths, names) ==
  \E path \in paths, name \in {""} \cup names :
    LET r == getToken(Kit, config, path, name)
    IN /\ Becomes(r)
       /\ UNCHANGED <<listeners, config, storeFails, everRegistered, aliasCall, validateCall, mergeCall, resolveRun>>

PrefetchThemes(lists) ==
  \E themeNames \in lists :
    LET r == prefetchThemes(Kit, config, themeNames)
    IN /\ Becomes(r)
       /\ UNCHANGED <<listeners, config, storeFails, everRegistered, aliasCall, validateCall, mergeCall, resolveRun>>

AddThemeChangeListener ==
  \E listener \in ListenerIds :
    /\ listeners' = addThemeChangeListener(listeners, listener)
    /\ UNCHANGED <<themes, currentTheme, resolvedTokenCache, config, storage,
                   storeFails, everRegistered, aliasCall, validateCall, mergeCall, resolveRun>>

Unsubscribe ==
  \E listener \in ListenerIds :
    /\ listeners' = unsubscribe(listeners, listener)
    /\ UNCHANGED <<themes, currentTheme, resolvedTokenCache, config, storage,
                   storeFails, everRegistered, aliasCall, validateCall, mergeCall, resolveRun>>

\* the kit used with two theme names, inheritance between them and every call
Next ==
  \/ RegisterTheme(CoreNames, Tokens, {""} \cup CoreNames)
  \/ UnregisterTheme(CoreNames \cup {GhostName})
  \/ Switch(CoreNames \cup {GhostName}, CustomTokens)
  \/ GetTokens(CoreNames \cup {GhostName})
  \/ PrefetchThemes(PrefetchLists)
  \/ AddThemeChangeListener
  \/ Unsubscribe

Spec == Init /\ [][Next]_vars

\* the kit used with three theme names that extend nothing
NextFlat ==
  \/ RegisterTheme(ThemeNames, Tokens, {""})
  \/ UnregisterTheme(ThemeNames)
  \/ Switch(ThemeNames \cup {GhostName}, {})
  \/ GetTokens(ThemeNames)
  \/ PrefetchThemes({<<>>})
  \/ AddThemeChangeListener
  \/ Unsubscribe

SpecFlat == Init /\ [][NextFlat]_vars

\* new ThemeKit(config) for every kind of store, with persistence on or off, and a
\* store whose set works or throws from the start
InitStore ==
  /\ themes = <<>>
  /\ currentTheme = ""
  /\ resolvedTokenCache = EmptyCache
  /\ listeners = <<>>
  /\ config \in [aliasing : BOOLEAN, maxDepth : {MaxDepth}, persistence : BOOLEAN,
                 storage : {"localStorage", "sessionStorage", "custom"}]
  /\ storage = ""
  /\ storeFails \in BOOLEAN
  /\ everRegistered = FALSE
  /\ aliasCall = NoCall
  /\ validateCall = NoValidation
  /\ mergeCall = NoMerge
  /\ resolveRun = NoRun

\* the environment: the store's set starts or stops throwing (the quota is
\* reached or freed, the browser's storage is blocked or allowed)
StoreBreaksOrRecovers ==
  /\ storeFails' = ~storeFails
  /\ UNCHANGED <<themes, currentTheme, resolvedTokenCache, listeners, config, storage,
                 everRegistered, aliasCall, validateCall, mergeCall, resolveRun>>

\* the kit used with one theme name over a store that may fail
NextStore ==
  \/ RegisterTheme({"a"}, Tokens, {""})
  \/ UnregisterTheme({"a"})
  \/ Switch({"a", GhostName}, Tokens)
  \/ GetTokens({"a"})
  \/ PrefetchThemes({<<>>})
  \/ AddThemeChangeListener
  \/ Unsubscribe
  \/ StoreBreaksOrRecovers

SpecStore == InitStore /\ [][NextStore]_vars

\* switch called with a name of the given set while one of the subscribed
\* listeners answers its notification with a switch to another of them
SwitchReentered(names) ==
  \E name \in names, inner \in names, at \in 1..Len(listeners) :
    \E r \in {switchReentered(Kit, config, listeners,
                               [storeThrows |-> storeFails, throwAt |-> 0],
                               name, Undefined, at, inner)} :
      /\ Becomes(r)
      /\ UNCHANGED <<listeners, config, storeFails, everRegistered, aliasCall,
                     validateCall, mergeCall, resolveRun>>

\* the kit used with two theme names by listeners that switch when notified
NextReentrant ==
  \/ RegisterTheme(CoreNames, Tokens, {""})
  \/ Switch(CoreNames, {})
  \/ SwitchReentered(CoreNames)
  \/ AddThemeChangeListener
  \/ Unsubscribe

SpecReentrant == Init /\ [][NextReentrant]_vars

\* what the tokens option is given as: nothing, the path of a file, one token
\* tree, or a mapping of theme name to token tree; the kit sees only the value
TokenDictionary ==
  Obj(<<Entry("a", TokenPool[1]), Entry("b", TokenPool[2])>>)

TokenSources ==
  {[form |-> "none", value |-> Undefined], [form |-> "path", value |-> Str(<<"0">>)],
   [form |-> "array", value |-> Arr(<<"1">>)],
   [form |-> "mapping", value |-> TokenDictionary]}
  \cup {[form |-> "tree", value |-> t] : t \in Tokens}

\* the application starts again: a kit is constructed with the same options over
\* the same store, with a tokens option and a defaultTheme of the given sets; a
\* constructor that throws leaves no kit
NewInstance(sources, defaults) ==
  \E source \in sources, defaultTheme \in defaults :
    \E r \in {constructor(config, storage, [storeThrows |-> storeFails, throwAt |-> 0],
                          source.value, defaultTheme)} :
      /\ r.ok
      /\ Becomes(r)
      /\ listeners' = <<>>
      /\ everRegistered' = (Len(r.k.themes) > 0)
      /\ UNCHANGED <<config, storeFails, aliasCall, validateCall, mergeCall, resolveRun>>

\* kits constructed from a tokens option over a store that outlives them
NextBoot ==
  \/ NewInstance(TokenSources, CoreNames)
  \/ RegisterTheme(CoreNames, Tokens, {""})
  \/ Switch(CoreNames \cup {GhostName}, {})
  \/ StoreBreaksOrRecovers

SpecBoot == InitStore /\ [][NextBoot]_vars

\* kits with and without persistence over a store of any kind whose set never
\* throws and which nothing else writes
InitPersist ==
  /\ InitStore
  /\ storeFails = FALSE

NextPersist ==
  \/ NewInstance(TokenSources, CoreNames)
  \/ RegisterTheme(CoreNames, Tokens, {""})
  \/ UnregisterTheme(CoreNames)
  \/ Switch(CoreNames \cup {GhostName}, Tokens)
  \/ AddThemeChangeListener

SpecPersist == InitPersist /\ [][NextPersist]_vars

\* the values of a key of the trees that are merged: a string, an array, null,
\* and objects one and two levels deep whose keys partly coincide
MergeValues ==
  {Str(<<"1">>), Arr(<<"2">>), Null,
   Obj(<<Entry("z", Str(<<"1">>))>>),
   Obj(<<Entry("w", Str(<<"2">>))>>),
   Obj(<<Entry("z", Obj(<<Entry("w", Str(<<"1">>))>>))>>),
   Obj(<<Entry("z", Obj(<<Entry("x", Str(<<"2">>))>>)), Entry("w", Arr(<<"1">>))>>)}

\* the token trees that are merged: no key, the key x, the keys y and x
MergeInputs ==
  {Obj(<<>>)}
  \cup {Obj(<<Entry("x", v)>>) : v \in MergeValues}
  \cup {Obj(<<Entry("y", u), Entry("x", v)>>) : u \in MergeValues, v \in MergeValues}

\* a kit without themes about to merge two trees
InitMerge ==
  /\ themes = <<>>
  /\ currentTheme = ""
  /\ resolvedTokenCache = EmptyCache
  /\ listeners = <<>>
  /\ config = [aliasing |-> FALSE, maxDepth |-> MaxDepth, persistence |-> TRUE,
               storage |-> "localStorage"]
  /\ storage = ""
  /\ storeFails = FALSE
  /\ everRegistered = FALSE
  /\ aliasCall = NoCall
  /\ validateCall = NoValidation
  /\ \E base \in MergeInputs, override \in MergeInputs :
       mergeCall = MergeCall(FALSE, base, override, Undefined)
  /\ resolveRun = NoRun

\* this.mergeTokens(base, override)
MergeTokens ==
  /\ mergeCall' = MergeCall(TRUE, mergeCall.base, mergeCall.override,
                            mergeTokens(mergeCall.base, mergeCall.override))
  /\ UNCHANGED <<themes, currentTheme, resolvedTokenCache, listeners, config, storage,
                 storeFails, everRegistered, aliasCall, validateCall, resolveRun>>

NextMerge ==
  \/ MergeTokens

SpecMerge == InitMerge /\ [][NextMerge]_vars

\* an option of the constructor's argument: <<>> when it is not given, <<v>> when
\* it is given as v; option ?? default
orElse(option, default) == IF Len(option) = 0 THEN default ELSE option[1]

\* aliasing?.maxDepth ?? 10
DefaultMaxDepth == 10

\* the aliasing options a kit is constructed with
AliasingOptions ==
  [enabled : {<<>>, <<TRUE>>, <<FALSE>>}, maxDepth : {<<>>, <<0>>, <<MaxDepth>>}]

\* this.config as the constructor builds it from the aliasing options, with the
\* persistence defaults
ThemeKitConfig(aliasing) ==
  [aliasing |-> orElse(aliasing.enabled, FALSE),
   maxDepth |-> orElse(aliasing.maxDepth, DefaultMaxDepth),
   persistence |-> TRUE,
   storage |-> "localStorage"]

\* new ThemeKit({aliasing}) for every choice of the aliasing options
InitConfig ==
  /\ themes = <<>>
  /\ currentTheme = ""
  /\ resolvedTokenCache = EmptyCache
  /\ listeners = <<>>
  /\ config \in {ThemeKitConfig(aliasing) : aliasing \in AliasingOptions}
  /\ storage = ""
  /\ storeFails = FALSE
  /\ everRegistered = FALSE
  /\ aliasCall = NoCall
  /\ validateCall = NoValidation
  /\ mergeCall = NoMerge
  /\ resolveRun = NoRun

\* the values at the leaves of the trees resolveAliases is called with: a plain
\* string, aliases of every key of the tree, of its nested object, of a leaf of
\* that object and of a key that is absent, and an array holding an alias string
AliasValues ==
  {Str(<<"1">>), Ref(<<"a">>), Ref(<<"b">>), Ref(<<"c">>), Ref(<<"d">>),
   Ref(<<"d", ".", "e">>), Ref(<<"m">>), Arr(<<"{", "a", "}">>)}

\* the trees {a, b, c, d: {e}} over these values
AliasTrees ==
  {Obj(<<Entry("a", va), Entry("b", vb), Entry("c", vc),
         Entry("d", Obj(<<Entry("e", ve)>>))>>) :
     va \in AliasValues, vb \in AliasValues, vc \in AliasValues, ve \in AliasValues}

\* the values of maxDepth the calls pass, from 0 to one more than the kits' bound
MaxDepths == 0..(MaxDepth + 1)

\* a user of the alias utilities is about to call resolveAliases(tokens, maxDepth)
InitAliases ==
  /\ themes = <<>>
  /\ currentTheme = ""
  /\ resolvedTokenCache = EmptyCache
  /\ listeners = <<>>
  /\ config = [aliasing |-> TRUE, maxDepth |-> MaxDepth, persistence |-> TRUE,
               storage |-> "localStorage"]
  /\ storage = ""
  /\ storeFails = FALSE
  /\ everRegistered = FALSE
  /\ aliasCall \in {AliasCall(tokens, maxDepth, FALSE, Returned(Undefined, {})) :
                      tokens \in AliasTrees, maxDepth \in MaxDepths}
  /\ validateCall = NoValidation
  /\ mergeCall = NoMerge
  /\ resolveRun = NoRun

\* the call is made
ResolveAliases ==
  /\ ~aliasCall.ran
  /\ aliasCall' = AliasCall(aliasCall.tokens, aliasCall.maxDepth, TRUE,
                            resolveAliases(aliasCall.tokens, aliasCall.maxDepth))
  /\ UNCHANGED <<themes, currentTheme, resolvedTokenCache, listeners, config, storage,
                 storeFails, everRegistered, validateCall, mergeCall, resolveRun>>

NextAliases == ResolveAliases

SpecAliases == InitAliases /\ [][NextAliases]_vars

\* the trees of AliasTrees whose key c holds the plain string, the array, or an
\* alias of a or of the nested object
ResolveTrees ==
  {tokens \in AliasTrees :
     Get(tokens, "c") \in {Str(<<"1">>), Arr(<<"{", "a", "}">>), Ref(<<"a">>), Ref(<<"d">>)}}

\* resolveAliases(tokens, maxDepth) has been called and is about to make its call
\* resolveValue(resolved, '', 0)
InitResolve ==
  /\ themes = <<>>
  /\ currentTheme = ""
  /\ resolvedTokenCache = EmptyCache
  /\ listeners = <<>>
  /\ config = [aliasing |-> TRUE, maxDepth |-> MaxDepth, persistence |-> TRUE,
               storage |-> "localStorage"]
  /\ storage = ""
  /\ storeFails = FALSE
  /\ everRegistered = FALSE
  /\ aliasCall \in {AliasCall(tokens, maxDepth, FALSE, Returned(Undefined, {})) :
                      tokens \in ResolveTrees, maxDepth \in MaxDepths}
  /\ validateCall = NoValidation
  /\ mergeCall = NoMerge
  /\ resolveRun = [frames |-> <<Frame(jsonClone(aliasCall.tokens), <<>>, 0)>>,
                   resolving |-> {}]

\* the call of resolveValue on top of the stack takes its next step; the call of
\* resolveAliases is over when the last frame has returned or a frame has thrown
ResolveStep ==
  /\ resolveRun.frames # <<>>
  /\ \E r \in {resolveValueStep(resolveRun, jsonClone(aliasCall.tokens),
                                 aliasCall.maxDepth)} :
       /\ resolveRun' = [frames |-> r.frames, resolving |-> r.resolving]
       /\ aliasCall' = IF r.ended
                       THEN AliasCall(aliasCall.tokens, aliasCall.maxDepth, TRUE, r.result)
                       ELSE aliasCall
  /\ UNCHANGED <<themes, currentTheme, resolvedTokenCache, listeners, config, storage,
                 storeFails, everRegistered, validateCall, mergeCall>>

NextResolve == ResolveStep

\* the JavaScript engine runs the call to its end
SpecResolve == InitResolve /\ [][NextResolve]_vars /\ WF_vars(ResolveStep)

\* how many rules the rule lists of the kits hold at most
MaxRules == 2

\* the rules of validateCommand
NamingConvention ==
  Rule("naming-convention", <<RegExp("naming", FALSE)>>,
       "Token names should use camelCase or kebab-case", "warning")

ColorFormat ==
  Rule("color-format", <<RegExp("color", FALSE)>>,
       "Color values should be valid hex, rgb, or rgba format", "error")

SpacingUnit ==
  Rule("spacing-unit", <<RegExp("spacing", FALSE)>>,
       "Spacing values should include units (px, rem, em, %)", "warning")

CliRules == <<NamingConvention, ColorFormat, SpacingUnit>>

\* the rules callers configure: those of the command, a rule whose RegExp has the
\* g flag, rules without a message or without a pattern, and a null entry
RulePool ==
  {NamingConvention, ColorFormat, SpacingUnit,
   Rule("lowercase", <<RegExp("naming", TRUE)>>, "use lower case", "error"),
   Rule("no-message", <<RegExp("color", FALSE)>>, "", "error"),
   Rule("no-pattern", <<>>, "has no pattern", "warning"),
   NullRule}

RuleLists == UNION {[1..n -> RulePool] : n \in 0..MaxRules}

\* the README's tokens.json, with one key kept of each group
ReadmeTokens ==
  Obj(<<Entry("colors", Obj(<<Entry("primary",
                                    Str(<<"#", "4", "A", "9", "0", "E", "2">>))>>)),
        Entry("spacing", Obj(<<Entry("md", Str(<<"8", "p", "x">>))>>))>>)

\* the arguments validateTokens is called with: null, a string, an array, and
\* objects whose keys pass or fail the patterns at the top level and below
ValidationInputs ==
  {Undefined, Str(<<"1">>), Arr(<<"1">>), Obj(<<>>), ReadmeTokens,
   Obj(<<Entry("md", Str(<<"1">>)), Entry("primary", Str(<<"1">>))>>),
   Obj(<<Entry("Bad", Obj(<<Entry("4px", Str(<<"1">>)), Entry("md", Str(<<"1">>))>>))>>),
   Obj(<<Entry("rgb(0)", Arr(<<"1">>)), Entry("#fff", Str(<<"1">>))>>),
   Obj(<<Entry("rgb(0)", Arr(<<"1">>)), Entry("4px", Obj(<<Entry("Bad", Str(<<"1">>))>>))>>)}

\* the parsed contents of the files validateCommand is run on
TokenFiles == {ReadmeTokens, Obj(<<>>), Obj(<<Entry("md", Str(<<"8", "p", "x">>))>>)}

\* this.config of a kit constructed with validation options (enabled ?? true,
\* rules ?? [])
ValidationConfig(enabled, rules) ==
  [aliasing |-> FALSE, maxDepth |-> DefaultMaxDepth, persistence |-> TRUE,
   storage |-> "localStorage",
   validation |-> [enabled |-> orElse(enabled, TRUE), rules |-> orElse(rules, <<>>)]]

\* new ThemeKit({validation}) for every choice of the validation options
InitValidate ==
  /\ themes = <<>>
  /\ currentTheme = ""
  /\ resolvedTokenCache = EmptyCache
  /\ listeners = <<>>
  /\ config \in {ValidationConfig(enabled, rules) :
                   enabled \in {<<>>, <<FALSE>>},
                   rules \in {<<>>} \cup {<<list>> : list \in RuleLists}}
  /\ storage = ""
  /\ storeFails = FALSE
  /\ everRegistered = FALSE
  /\ aliasCall = NoCall
  /\ validateCall = NoValidation
  /\ mergeCall = NoMerge
  /\ resolveRun = NoRun

\* validateTokens(tokens) called on the kit
ValidateTokens ==
  \E tokens \in ValidationInputs :
    LET r == validateTokens(config.validation, tokens)
    IN /\ validateCall' = ValidateCall("validateTokens", tokens, config.validation.rules,
                                       [valid |-> r.valid, errors |-> r.errors])
       /\ config' = [config EXCEPT !.validation.rules = r.rules]
       /\ UNCHANGED <<themes, currentTheme, resolvedTokenCache, listeners, storage,
                      storeFails, everRegistered, aliasCall, mergeCall, resolveRun>>

\* validateCommand({input}) for a file that exists and parses to tokens: a kit of
\* its own with the three rules validates the tokens; the line logged first and
\* the exit code (0 when process.exit is not called)
validateCommand(tokens) ==
  LET validation == validateTokens([enabled |-> TRUE, rules |-> CliRules], tokens)
  IN [valid |-> validation.valid,
      errors |-> validation.errors,
      log |-> IF validation.valid THEN "Tokens are valid!" ELSE "Validation failed:",
      exit |-> IF Len(validation.errors) > 0 THEN 1 ELSE 0]

\* theme-kit validate run on a token file
ValidateCommand ==
  \E tokens \in TokenFiles :
    /\ validateCall' = ValidateCall("validateCommand", tokens, CliRules,
                                    validateCommand(tokens))
    /\ UNCHANGED <<themes, currentTheme, resolvedTokenCache, listeners, config, storage,
                   storeFails, everRegistered, aliasCall, mergeCall, resolveRun>>

NextValidate ==
  \/ ValidateTokens
  \/ ValidateCommand

SpecValidate == InitValidate /\ [][NextValidate]_vars

\* ------------------------------------------------------------------ vocabulary of the claims

\* structural equality of two token values, whatever the order of their keys
RECURSIVE SameTree(_, _)
SameTree(a, b) ==
  /\ a.t = b.t
  /\ a.s = b.s
  /\ Len(a.o) = Len(b.o)
  /\ \A i \in 1..Len(a.o) :
       /\ HasKey(b, a.o[i].k)
       /\ SameTree(a.o[i].n, Get(b, a.o[i].k))

\* the registered themes reached from a theme by following extends, step by step
RECURSIVE Ancestors(_, _, _)
Ancestors(reg, name, fuel) ==
  IF fuel = 0 \/ ~HasTheme(reg, name) \/ GetTheme(reg, name).extends = ""
     \/ ~HasTheme(reg, GetTheme(reg, name).extends)
  THEN {}
  ELSE {GetTheme(reg, name).extends}
         \cup Ancestors(reg, GetTheme(reg, name).extends, fuel - 1)

\* no registered theme is its own ancestor
Acyclic(reg) ==
  \A i \in 1..Len(reg) : reg[i].name \notin Ancestors(reg, reg[i].name, Len(reg))

\* the terminal values of a token tree with their key paths: the values that are
\* not objects, and the empty objects
RECURSIVE Leaves(_, _)
Leaves(node, prefix) ==
  IF node.t = "obj" /\ Len(node.o) > 0
  THEN UNION {Leaves(node.o[i].n, Append(prefix, node.o[i].k)) : i \in 1..Len(node.o)}
  ELSE {[path |-> prefix, value |-> node]}

LeafPaths(node) == {l.path : l \in Leaves(node, <<>>)}

\* the value found in a tree by following a key path (Undefined when absent)
RECURSIVE ValueAt(_, _)
ValueAt(node, path) ==
  IF path = <<>> THEN node ELSE ValueAt(Get(node, Head(path)), Tail(path))

\* one key path is a proper prefix of the other
Conflict(p, q) ==
  \/ Len(p) < Len(q) /\ SubSeq(q, 1, Len(p)) = p
  \/ Len(q) < Len(p) /\ SubSeq(p, 1, Len(q)) = q

\* the names of the registered themes
RegisteredNames == {themes[i].name : i \in 1..Len(themes)}

\* a call during which no collaborator fails
NoFault == [storeThrows |-> FALSE, throwAt |-> 0]

\* registerTheme called by callers that keep the registry free of extends cycles
RegisterThemeAcyclic ==
  RegisterTheme(CoreNames, Tokens, {""} \cup CoreNames) /\ Acyclic(themes')

NextAcyclic ==
  \/ RegisterThemeAcyclic
  \/ UnregisterTheme(CoreNames \cup {GhostName})
  \/ Switch(CoreNames \cup {GhostName}, CustomTokens)
  \/ GetTokens(CoreNames \cup {GhostName})
  \/ PrefetchThemes(PrefetchLists)
  \/ AddThemeChangeListener
  \/ Unsubscribe

SpecAcyclic == Init /\ [][NextAcyclic]_vars

\* kits of every aliasing configuration, used without listeners by callers that
\* keep the registry free of extends cycles
NextConfig ==
  \/ RegisterThemeAcyclic
  \/ UnregisterTheme(CoreNames)
  \/ Switch(CoreNames \cup {GhostName}, CustomTokens)
  \/ GetTokens(CoreNames)
  \/ GetToken(TokenPaths, {})
  \/ PrefetchThemes({<<>>})

SpecConfig == InitConfig /\ [][NextConfig]_vars

\* ------------------------------------------------------------------ claims

\* C1 (as claimed): in every state, for every registered theme n, getTokens(n)
\* returns and switch(n) hands to the listeners what resolving n with no cache
\* gives from the current registry, and fails exactly when that resolution fails.
C1_NoStaleValueObservable ==
  \A n \in ThemeNames :
    HasTheme(themes, n) =>
      LET fresh == resolveTokens(themes, config, EmptyCache, GetTheme(themes, n), {})
          got == getTokens(Kit, config, n)
          sw == switch(Kit, config, listeners, NoFault, n, Undefined)
      IN /\ got.ok = fresh.ok
         /\ sw.ok = fresh.ok
         /\ fresh.ok => /\ SameTree(got.ret, fresh.val)
                        /\ \A i \in 1..Len(sw.k.calls) :
                             SameTree(sw.k.calls[i].tokens, fresh.val)

\* C2: registerTheme(t), and unregisterTheme(n) for a registered n, evict exactly
\* the cache entry of that name: right after the eviction the cache has no entry
\* for the name and every other name has the entry it had before the call.
C2_EvictsExactlyThatEntry ==
  /\ \A name \in ThemeNames, tokens \in Tokens, extends \in {""} \cup ThemeNames :
       LET k1 == registered(Kit, Theme(name, tokens, extends))
       IN /\ k1.cache[name] = Undefined
          /\ \A m \in AllNames \ {name} : k1.cache[m] = resolvedTokenCache[m]
  /\ \A name \in ThemeNames :
       HasTheme(themes, name) =>
         LET k1 == unregistered(Kit, name)
         IN /\ k1.cache[name] = Undefined
            /\ \A m \in AllNames \ {name} : k1.cache[m] = resolvedTokenCache[m]

\* C2's case: a theme whose entry is evicted while another theme has an entry
C2_Witness ==
  \E name \in ThemeNames, other \in ThemeNames :
    /\ name # other
    /\ HasTheme(themes, name)
    /\ resolvedTokenCache[name] # Undefined
    /\ resolvedTokenCache[other] # Undefined
    /\ unregistered(Kit, name).cache[name] = Undefined
    /\ registered(Kit, Theme(name, TokenPool[1], "")).cache[other] # Undefined

\* what the next resolution of a theme must give when it is computed from the
\* theme's own tokens: they are merged over what its registered parent resolves
\* to at that moment, and alias-resolved when aliasing is enabled
ExpectedFrom(k, theme) ==
  LET extended == theme.extends # "" /\ HasTheme(k.themes, theme.extends)
      parent == getTokens(k, config, theme.extends)
      merged == IF extended THEN mergeTokens(parent.ret, theme.tokens) ELSE theme.tokens
      tokens == IF config.aliasing
                THEN resolveAliases(merged, config.maxDepth)
                ELSE Returned(merged, {})
  IN [ok |-> (extended => parent.ok) /\ tokens.ok, val |-> tokens.val]

\* C3: after registerTheme is called again for a registered, already resolved name
\* x with different tokens, the next getTokens(x) and the next switch(x) give the
\* resolution of the new tokens, not the cached value.
C3_ReregistrationIsReflected ==
  \A x \in RegisteredNames, tokens \in Tokens, extends \in {""} \cup ThemeNames :
    (/\ resolvedTokenCache[x] # Undefined
     /\ GetTheme(themes, x).tokens # tokens) =>
      LET theme == Theme(x, tokens, extends)
          r == registerTheme(Kit, config, listeners, NoFault, theme)
          k1 == [r.k EXCEPT !.calls = <<>>]
          expected == ExpectedFrom(k1, theme)
          got == getTokens(k1, config, x)
          sw == switch(k1, config, listeners, NoFault, x, Undefined)
      IN \* whichever listener throws, the call leaves the same kit behind
         /\ \A env \in Envs :
              LET e == registerTheme(Kit, config, listeners, env, theme)
              IN [e.k EXCEPT !.calls = <<>>] = k1
         /\ got.ok = expected.ok
         /\ sw.ok = expected.ok
         /\ expected.ok =>
              /\ SameTree(got.ret, expected.val)
              /\ \A i \in 1..Len(sw.k.calls) :
                   SameTree(sw.k.calls[i].tokens, expected.val)

\* C3's case: x is resolved and cached, and re-registering it with other tokens
\* makes its next resolution differ from the cached value
C3_Witness ==
  \E x \in ThemeNames, tokens \in Tokens :
    /\ HasTheme(themes, x)
    /\ resolvedTokenCache[x] # Undefined
    /\ GetTheme(themes, x).tokens # tokens
    /\ LET r == registerTheme(Kit, config, listeners, NoFault, Theme(x, tokens, ""))
           got == getTokens(r.k, config, x)
       IN got.ok /\ ~SameTree(got.ret, resolvedTokenCache[x])

\* C4: resolving a theme twice with no registerTheme/unregisterTheme in between
\* returns equal trees, and for a registered theme the second resolution is the
\* cache entry the first one stored: it returns that entry and leaves the cache
\* as it was.
C4_SecondResolutionIsCached ==
  /\ \A n \in ThemeNames :
       HasTheme(themes, n) =>
         LET first == getTokens(Kit, config, n)
             second == getTokens(first.k, config, n)
         IN first.ok =>
              /\ second.ok
              /\ SameTree(second.ret, first.ret)
              /\ first.k.cache[n] = first.ret
              /\ second.ret = first.k.cache[n]
              /\ second.k = first.k
  /\ \A n \in AllNames, customTokens \in Tokens :
       ~HasTheme(themes, n) =>
         LET first == switch(Kit, config, listeners, NoFault, n, customTokens)
             second == switch([first.k EXCEPT !.calls = <<>>], config, listeners,
                              NoFault, n, customTokens)
         IN first.ok => second.ok /\ second.k.calls = first.k.calls

\* C4's case: a registered theme with no cache entry whose first resolution
\* succeeds, so that the second one finds the entry
C4_Witness ==
  \E n \in ThemeNames :
    /\ HasTheme(themes, n)
    /\ GetTheme(themes, n).extends # ""
    /\ resolvedTokenCache[n] = Undefined
    /\ LET first == getTokens(Kit, config, n)
       IN first.ok /\ getTokens(first.k, config, n).ret = first.ret

\* the resolutions of a registered theme A that are computed, not served from its
\* cache entry: from an empty cache, and from the cache as it is without A's entry
ComputedFrom(A) == {EmptyCache, invalidateCache(resolvedTokenCache, A)}

\* what a terminal value of a theme's own tokens must become in the resolved
\* tree: itself, or with aliasing enabled what the resolved tree holds at its target
OwnValueIn(resolved, value) ==
  IF config.aliasing /\ isAlias(value)
  THEN getNestedValue(resolved, getAliasPath(value))
  ELSE value

NotifiedAll(lst, themeName, tokens) ==
  [i \in 1..Len(lst) |->
     [listener |-> lst[i], theme |-> themeName, tokens |-> tokens,
      active |-> themeName,
      stored |-> persistTheme(config, storage,
                              [storeThrows |-> storeFails, throwAt |-> 0],
                              themeName).storage]]

C9_NoActiveThemeWhenNoneRemain ==
  \A n \in RegisteredNames, env \in Envs :
    (n = currentTheme /\ Len(themes) = 1) =>
      LET r == unregisterTheme(Kit, config, listeners, env, n)
      IN r.k.themes = <<>> /\ getCurrentTheme(r.k) # n

\* C10 (as claimed): registerTheme(t) inserts or replaces the theme by name, and
\* activates t if and only if t is the first theme ever registered and no theme
\* is active; in every other case the active theme is unchanged.
C10_ActivatesFirstEverRegistered ==
  \A name \in ThemeNames, tokens \in Tokens, extends \in {""} \cup ThemeNames :
    LET r == registerTheme(Kit, config, listeners, NoFault, Theme(name, tokens, extends))
    IN /\ r.k.themes = PutTheme(themes, Theme(name, tokens, extends))
       /\ IF ~everRegistered /\ currentTheme = ""
          THEN getCurrentTheme(r.k) = name
          ELSE getCurrentTheme(r.k) = currentTheme /\ r.k.calls = <<>>

\* C10 (amended): registerTheme(t) inserts or replaces the theme by name, and
\* switches to t.name if and only if t is then the only registered theme and no
\* switch has succeeded yet (currentTheme is empty), whether or not t is the first
\* theme ever registered; the switch makes t the active theme if t's tokens
\* resolve and otherwise fails, leaving t registered and no theme active.  In
\* every other case the active theme is unchanged and no listener is called.
C10_ActivatesOnlyThemeWhenIdle ==
  \A name \in ThemeNames, tokens \in Tokens, extends \in {""} \cup ThemeNames :
    LET t == Theme(name, tokens, extends)
        inserted == PutTheme(themes, t)
        resolves == resolveTokens(<<t>>, config, EmptyCache, t, {}).ok
    IN \A env \in Envs :
         LET r == registerTheme(Kit, config, listeners, env, t)
         IN /\ r.k.themes = inserted
            /\ IF Len(inserted) = 1 /\ currentTheme = ""
               THEN /\ resolves => getCurrentTheme(r.k) = name
                    /\ ~resolves =>
                         ~r.ok /\ getCurrentTheme(r.k) = "" /\ r.k.calls = <<>>
               ELSE /\ r.ok
                    /\ getCurrentTheme(r.k) = currentTheme
                    /\ r.k.calls = <<>>

\* C10's case: themes were registered before, none is registered or active now,
\* and the theme that is registered becomes the active one
C10_Witness ==
  /\ everRegistered
  /\ themes = <<>>
  /\ currentTheme = ""
  /\ \E name \in ThemeNames, tokens \in Tokens :
       LET r == registerTheme(Kit, config, listeners, NoFault, Theme(name, tokens, ""))
       IN r.ok /\ getCurrentTheme(r.k) = name

\* C11: a switch(name) that returns normally has resolved the tokens, made name
\* the active theme, persisted name and then called every subscribed listener
\* exactly once, in subscription order, with (name, resolved tokens); a listener
\* that reads getCurrentTheme() or the store while it is notified finds what the
\* switch leaves there.  The order shows in an interrupted switch too: when the
\* resolution fails nothing is set, persisted or notified, and when the store
\* throws the theme is already active and no listener has been called.
C11_SwitchResolvesSetsPersistsNotifies ==
  \A name \in AllNames, customTokens \in {Undefined} \cup Tokens, env \in Envs :
    (HasTheme(themes, name) \/ customTokens # Undefined) =>
      LET r == switch(Kit, config, listeners, env, name, customTokens)
          targetTheme == IF HasTheme(themes, name)
                         THEN GetTheme(themes, name)
                         ELSE Theme(name, customTokens, "")
          res == resolveTokens(themes, config, resolvedTokenCache, targetTheme, {})
          p == persistTheme(config, storage, env, name)
      IN /\ r.ok =>
              /\ res.ok
              /\ getCurrentTheme(r.k) = name
              /\ r.k.storage = p.storage
              /\ Len(r.k.calls) = Len(listeners)
              /\ \A i \in 1..Len(listeners) :
                   /\ r.k.calls[i].listener = listeners[i]
                   /\ r.k.calls[i].theme = name
                   /\ r.k.calls[i].tokens = res.val
                   /\ r.k.calls[i].active = name
                   /\ r.k.calls[i].stored = p.storage
         /\ ~res.ok =>
              /\ ~r.ok
              /\ getCurrentTheme(r.k) = currentTheme
              /\ r.k.storage = storage
              /\ r.k.calls = <<>>
         /\ (res.ok /\ ~p.ok) =>
              /\ ~r.ok
              /\ getCurrentTheme(r.k) = name
              /\ r.k.calls = <<>>

\* C11's case: another theme is active and persisted, two listeners are
\* subscribed, and a switch returns normally: both listeners were called, in
\* order, and found the new name active and persisted
C11_Witness ==
  /\ Len(listeners) = 2
  /\ currentTheme # ""
  /\ storage = currentTheme
  /\ \E name \in AllNames, customTokens \in {Undefined} \cup Tokens :
       /\ name # currentTheme
       /\ LET r == switch(Kit, config, listeners, NoFault, name, customTokens)
          IN /\ r.ok
             /\ Len(r.k.calls) = 2
             /\ r.k.calls[1].listener = listeners[1]
             /\ r.k.calls[2].listener = listeners[2]
             /\ r.k.calls[2].active = name
             /\ r.k.calls[2].stored = name

\* C12 (as claimed): a store whose set throws never makes a switch fail, whatever
\* the kind of store: a switch whose tokens resolve and whose listeners do not
\* throw returns normally, the requested theme is active and every listener has
\* been notified.
C12_StoreFailureIsSwallowed ==
  \A name \in AllNames, customTokens \in {Undefined} \cup Tokens :
    LET env == [storeThrows |-> storeFails, throwAt |-> 0]
        r == switch(Kit, config, listeners, env, name, customTokens)
        targetTheme == IF HasTheme(themes, name)
                       THEN GetTheme(themes, name)
                       ELSE Theme(name, customTokens, "")
        res == resolveTokens(themes, config, resolvedTokenCache, targetTheme, {})
    IN (/\ HasTheme(themes, name) \/ customTokens # Undefined
        /\ res.ok
        /\ storeFails) =>
         /\ r.ok
         /\ getCurrentTheme(r.k) = name
         /\ r.k.calls = NotifiedAll(listeners, name, res.val)

\* C13 (as claimed): a listener that throws while it is notified never makes the
\* switch fail: the switch returns normally and the theme it made active and the
\* name it persisted stand.
C13_ListenerFailureIsSwallowed ==
  \A name \in AllNames, customTokens \in {Undefined} \cup CustomTokens, env \in Envs :
    LET r == switch(Kit, config, listeners, env, name, customTokens)
        quiet == switch(Kit, config, listeners, [env EXCEPT !.throwAt = 0], name,
                        customTokens)
    IN (env.throwAt > 0 /\ quiet.ok) =>
         /\ r.ok
         /\ getCurrentTheme(r.k) = name
         /\ r.k.storage = quiet.k.storage

\* C14: a listener that throws is not isolated from the others: when the listener
\* at position j throws during a switch that would otherwise succeed, the
\* listeners before it and itself have been called, in order, the listeners
\* subscribed after it are not called for that switch, and the active theme and
\* the persisted name are already those of the new theme.
C14_ThrowingListenerStopsNotification ==
  \A name \in AllNames, customTokens \in {Undefined} \cup CustomTokens, env \in Envs :
    LET r == switch(Kit, config, listeners, env, name, customTokens)
        quiet == switch(Kit, config, listeners, [env EXCEPT !.throwAt = 0], name,
                        customTokens)
    IN (env.throwAt > 0 /\ quiet.ok) =>
         /\ r.k.calls = SubSeq(quiet.k.calls, 1, env.throwAt)
         /\ \A i \in (env.throwAt + 1)..Len(listeners) :
              \A c \in 1..Len(r.k.calls) : r.k.calls[c].listener # listeners[i]
         /\ getCurrentTheme(r.k) = name
         /\ r.k.storage = quiet.k.storage
         /\ (config.persistence /\ ~storeFails) => r.k.storage = name

\* C14's case: two listeners are subscribed, another theme is active, and the
\* first listener throws during a switch: the second one is not called, and the
\* new theme is active and persisted
C14_Witness ==
  /\ Len(listeners) = 2
  /\ currentTheme # ""
  /\ \E name \in AllNames, customTokens \in {Undefined} \cup CustomTokens :
       /\ name # currentTheme
       /\ switch(Kit, config, listeners, NoFault, name, customTokens).ok
       /\ LET r == switch(Kit, config, listeners, [NoFault EXCEPT !.throwAt = 1],
                          name, customTokens)
          IN /\ Len(r.k.calls) = 1
             /\ r.k.calls[1].listener = listeners[1]
             /\ getCurrentTheme(r.k) = name
             /\ r.k.storage = name

\* the keys an alias names, one per segment of its dot-path
NotDot(c) == c # "."

TargetKeys(alias) == SelectSeq(getAliasPath(alias), NotDot)

\* the value an alias stands for in a tree: its target, followed through further
\* aliases (at most fuel of them), with the aliases inside a target object
\* followed in the same way
RECURSIVE FullyResolved(_, _, _)
FullyResolved(tree, value, fuel) ==
  IF isAlias(value)
  THEN IF fuel = 0
       THEN Undefined
       ELSE FullyResolved(tree, ValueAt(tree, TargetKeys(value)), fuel - 1)
  ELSE IF value.t = "obj"
  THEN Obj([i \in 1..Len(value.o) |->
              Entry(value.o[i].k, FullyResolved(tree, value.o[i].n, fuel))])
  ELSE value

\* the objects of a tree with their key paths, the tree itself included
RECURSIVE Objects(_, _)
Objects(node, prefix) ==
  IF node.t = "obj"
  THEN {[path |-> prefix, value |-> node]}
         \cup UNION {Objects(node.o[i].n, Append(prefix, node.o[i].k)) :
                       i \in 1..Len(node.o)}
  ELSE {}

\* C15: when resolveAliases(tokens, maxDepth) returns, its result has at every
\* level the keys of tokens, in the same order; every leaf of tokens that is an
\* alias '{p}' is replaced by the fully resolved value found at p in tokens, and
\* every other leaf, a plain string or an array (whatever it holds), is copied
\* as it is, e.g. {a: '{b}', b: '{d.e}', c: [..], d: {e: '1'}} gives
\* {a: '1', b: '1', c: [..], d: {e: '1'}}.
C15_AliasesReplacedOthersCopied ==
  (aliasCall.ran /\ aliasCall.result.ok) =>
    LET tokens == aliasCall.tokens
        out == aliasCall.result.val
    IN /\ \A obj \in Objects(tokens, <<>>) :
            Keys(ValueAt(out, obj.path)) = Keys(obj.value)
       /\ \A l \in Leaves(tokens, <<>>) :
            IF isAlias(l.value)
            THEN /\ ValueAt(out, l.path)
                      = FullyResolved(tokens, l.value, aliasCall.maxDepth + 1)
                 /\ ValueAt(out, l.path) # Undefined
                 /\ \A m \in Leaves(ValueAt(out, l.path), <<>>) : ~isAlias(m.value)
            ELSE ValueAt(out, l.path) = l.value

\* C15's case: a call returns for a tree in which an alias names an object whose
\* own leaf is an alias of a string, and an array holding an alias string is
\* copied
C15_Witness ==
  /\ aliasCall.ran
  /\ aliasCall.result.ok
  /\ LET tokens == aliasCall.tokens
         out == aliasCall.result.val
     IN /\ Get(tokens, "a") = Ref(<<"d">>)
        /\ ValueAt(tokens, <<"d", "e">>) = Ref(<<"b">>)
        /\ Get(tokens, "b") = Str(<<"1">>)
        /\ Get(out, "a") = Obj(<<Entry("e", Str(<<"1">>))>>)
        /\ Get(tokens, "c") = Arr(<<"{", "a", "}">>)
        /\ Get(out, "c") = Get(tokens, "c")

\* the alias leaves of a tree (array elements are not leaves of the tree)
AliasLeaves(tree) == {l \in Leaves(tree, <<>>) : isAlias(l.value)}

\* key path p is q or leads to an object that holds q
Within(p, q) == Len(p) <= Len(q) /\ SubSeq(q, 1, Len(p)) = p

\* the alias leaves whose resolution an alias leaf asks for: those found at its
\* target, or inside the object at its target
RefersTo(tree, l) == {m \in AliasLeaves(tree) : Within(TargetKeys(l.value), m.path)}

\* the alias leaves reached from a set of them in at most n references
RECURSIVE ReachedFrom(_, _, _)
ReachedFrom(tree, from, n) ==
  IF n = 0
  THEN from
  ELSE ReachedFrom(tree, from \cup UNION {RefersTo(tree, l) : l \in from}, n - 1)

\* the alias leaves that lie on a cycle of references
OnAliasCycle(tree) ==
  {l \in AliasLeaves(tree) :
     l \in ReachedFrom(tree, RefersTo(tree, l), Cardinality(AliasLeaves(tree)))}

HasAliasCycle(tree) == OnAliasCycle(tree) # {}

\* C16: resolveAliases(tokens, maxDepth) returns no result, and fails with one
\* of its errors, for a tree that contains a cycle of alias references: a
\* self-reference, a pair such as {a: '{b}', b: '{a}'}, a longer cycle, a cycle
\* entered through aliases that are not on it, or an alias of an object holding
\* that alias; for every maxDepth >= 0.
C16_CycleNeverReturns ==
  (aliasCall.ran /\ HasAliasCycle(aliasCall.tokens)) =>
    /\ ~aliasCall.result.ok
    /\ aliasCall.result.val = Undefined
    /\ aliasCall.result.err \in {"Circular", "MaxDepth", "Unresolved"}

\* C16's case: a call that ran on a tree whose only cycle is an alias of the
\* object that holds it, with the largest maxDepth
C16_Witness ==
  /\ aliasCall.ran
  /\ aliasCall.maxDepth = MaxDepth + 1
  /\ OnAliasCycle(aliasCall.tokens) = {[path |-> <<"d", "e">>, value |-> Ref(<<"d">>)]}
  /\ ~aliasCall.result.ok

\* the alias leaves reached from a set of them in exactly n references
RECURSIVE AfterHops(_, _, _)
AfterHops(tree, from, n) ==
  IF n = 0 THEN from ELSE AfterHops(tree, UNION {RefersTo(tree, l) : l \in from}, n - 1)

\* the number of references of the shortest cycle through an alias leaf on a cycle
CycleLength(tree, l) ==
  CHOOSE n \in 1..Cardinality(AliasLeaves(tree)) :
    /\ l \in AfterHops(tree, {l}, n)
    /\ \A m \in 1..(n - 1) : l \notin AfterHops(tree, {l}, m)

\* the alias leaves whose target is absent from the tree
Dangling(tree) == {l \in AliasLeaves(tree) : ValueAt(tree, TargetKeys(l.value)) = Undefined}

\* C17: when every alias cycle of the tree is shorter than maxDepth (and no
\* alias has a missing target), resolveAliases fails with the circular-alias
\* error and never with the max-depth error, also when the cycle is entered
\* through aliases that are not on it and when an alias names an object that
\* holds it.
C17_ShortCycleReportedCircular ==
  ( /\ aliasCall.ran
    /\ HasAliasCycle(aliasCall.tokens)
    /\ Dangling(aliasCall.tokens) = {}
    /\ \A l \in OnAliasCycle(aliasCall.tokens) :
         CycleLength(aliasCall.tokens, l) < aliasCall.maxDepth )
  => /\ ~aliasCall.result.ok
     /\ aliasCall.result.err = "Circular"

\* the dot-path that names a key path
RECURSIVE DotPath(_)
DotPath(keys) ==
  IF keys = <<>>
  THEN <<>>
  ELSE joinPath(DotPath(SubSeq(keys, 1, Len(keys) - 1)), keys[Len(keys)])

\* the greatest of a set of numbers (0 when the set is empty)
MaxOf(S) == IF S = {} THEN 0 ELSE CHOOSE n \in S : \A m \in S : m <= n

\* the number of aliases followed one after another when a value of an acyclic
\* tree is resolved: none for a plain value or an alias whose target is absent,
\* one more than for its target for any other alias, and for an object the
\* largest number among its entries (fuel bounds the evaluation)
RECURSIVE Hops(_, _, _)
Hops(tree, value, fuel) ==
  IF fuel = 0
  THEN 0
  ELSE IF isAlias(value)
  THEN IF ValueAt(tree, TargetKeys(value)) = Undefined
       THEN 0
       ELSE 1 + Hops(tree, ValueAt(tree, TargetKeys(value)), fuel - 1)
  ELSE IF value.t = "obj"
  THEN MaxOf({Hops(tree, value.o[i].n, fuel) : i \in 1..Len(value.o)})
  ELSE 0

\* the longest alias chain of an acyclic tree
LongestChain(tree) == Hops(tree, tree, Cardinality(AliasLeaves(tree)) + 1)

RECURSIVE PlainMerge(_, _, _)
PlainMerge(reg, theme, fuel) ==
  IF fuel > 0 /\ theme.extends # "" /\ HasTheme(reg, theme.extends)
  THEN mergeTokens(PlainMerge(reg, GetTheme(reg, theme.extends), fuel - 1), theme.tokens)
  ELSE theme.tokens

\* the themes a resolution is asked for: the registered ones, and the ones switch
\* builds for a name that is not registered, over every tree and parent
Resolvable ==
  {themes[i] : i \in 1..Len(themes)}
    \cup {Theme(GhostName, tokens, extends) :
            tokens \in CustomTokens, extends \in {""} \cup RegisteredNames}

\* C20: a kit constructed without aliasing.enabled has aliasing disabled (and
\* without aliasing.maxDepth has maxDepth 10). With aliasing disabled a
\* resolution that is computed returns the plain merge of the theme's
\* inheritance chain, every alias string as it was written, and raises no
\* error for a missing or circular alias; getTokens of a registered theme and
\* switch to a theme with any custom tokens succeed. With aliasing enabled a
\* resolution that is computed returns what
\* resolveAliases(merged, config.aliasing.maxDepth) returns for the tokens merged
\* over the parent's resolution, and fails when that call throws.
C20_AliasingIsOptIn ==
  /\ \A aliasing \in AliasingOptions :
       /\ aliasing.enabled = <<>> => ~ThemeKitConfig(aliasing).aliasing
       /\ aliasing.enabled # <<>> =>
            ThemeKitConfig(aliasing).aliasing = aliasing.enabled[1]
       /\ aliasing.maxDepth = <<>> => ThemeKitConfig(aliasing).maxDepth = DefaultMaxDepth
       /\ aliasing.maxDepth # <<>> =>
            ThemeKitConfig(aliasing).maxDepth = aliasing.maxDepth[1]
  /\ \A theme \in Resolvable :
       LET fresh == resolveTokens(themes, config, EmptyCache, theme, {})
           extended == theme.extends # "" /\ HasTheme(themes, theme.extends)
           parent == resolveTokens(themes, config, EmptyCache,
                                   GetTheme(themes, theme.extends), {})
           merged == IF extended THEN mergeTokens(parent.val, theme.tokens)
                     ELSE theme.tokens
       IN IF ~config.aliasing
          THEN /\ fresh.ok
               /\ SameTree(fresh.val, PlainMerge(themes, theme, Len(themes)))
               /\ \A l \in Leaves(theme.tokens, <<>>) :
                    isAlias(l.value) => ValueAt(fresh.val, l.path) = l.value
          ELSE (extended => parent.ok) =>
                 LET through == resolveAliases(merged, config.maxDepth)
                 IN /\ fresh.ok <=> through.ok
                    /\ fresh.ok => SameTree(fresh.val, through.val)
                    /\ ~fresh.ok => fresh.err = through.err
  /\ ~config.aliasing =>
       /\ \A n \in RegisteredNames : getTokens(Kit, config, n).ok
       /\ \A tokens \in CustomTokens :
            LET sw == switch(Kit, config, listeners, NoFault, GhostName, tokens)
            IN sw.ok /\ sw.k.currentTheme = GhostName

\* C20's case: a kit with aliasing disabled has registered and cached a theme
\* that holds an alias of a key of its parent; with aliasing enabled the same
\* theme would resolve that alias with maxDepth 1 and fail with maxDepth 0
C20_Witness ==
  /\ ~config.aliasing
  /\ \E i \in 1..Len(themes) :
       LET theme == themes[i]
           on(maxDepth) == [config EXCEPT !.aliasing = TRUE, !.maxDepth = maxDepth]
       IN /\ theme.extends # "" /\ HasTheme(themes, theme.extends)
          /\ \E l \in Leaves(theme.tokens, <<>>) :
               /\ isAlias(l.value)
               /\ ValueAt(resolvedTokenCache[theme.name], l.path) = l.value
               /\ ValueAt(resolveTokens(themes, on(1), EmptyCache, theme, {}).val, l.path)
                    = Str(<<"1">>)
          /\ ~resolveTokens(themes, on(0), EmptyCache, theme, {}).ok

\* the keys of an object tree with their full paths, parents before children and
\* siblings in key order
RECURSIVE KeyPaths(_, _, _)
KeyPaths(obj, path, i) ==
  IF i > Len(obj.o)
  THEN <<>>
  ELSE LET fullPath == joinPath(path, obj.o[i].k)
       IN <<[at |-> fullPath, key |-> obj.o[i].k]>>
            \o (IF obj.o[i].n.t = "obj" THEN KeyPaths(obj.o[i].n, fullPath, 1) ELSE <<>>)
            \o KeyPaths(obj, path, i + 1)

\* a rule that has a pattern and a message
Complete(rule) == rule.given /\ Len(rule.pattern) > 0 /\ rule.message # ""

\* the key does not match the rule's regular expression
Fails(rule, key) == MatchEnd(rule.pattern[1].re, Spelling(key)) = 0

\* one message per key path of the tree whose key does not match the rule
RECURSIVE Misses(_, _, _)
Misses(rule, paths, i) ==
  IF i > Len(paths)
  THEN <<>>
  ELSE (IF Fails(rule, paths[i].key)
        THEN <<Violation(paths[i].at, rule.message)>> ELSE <<>>)
         \o Misses(rule, paths, i + 1)

\* the messages of the complete rules of a list, rule after rule
RECURSIVE AllMisses(_, _, _)
AllMisses(rules, tokens, i) ==
  IF i > Len(rules)
  THEN <<>>
  ELSE (IF Complete(rules[i])
        THEN Misses(rules[i], KeyPaths(tokens, <<>>, 1), 1) ELSE <<>>)
         \o AllMisses(rules, tokens, i + 1)

\* C21: with validation enabled, validateTokens of an object tree returns as
\* errors exactly one message per complete rule and key path, at every nesting
\* level, whose key does not match the rule's pattern, rule after rule, and
\* valid is true if and only if there is no such pair.
C21_OneMessagePerRuleAndFailingKey ==
  ( /\ validateCall.by = "validateTokens"
    /\ config.validation.enabled
    /\ validateCall.tokens.t = "obj" )
  => /\ validateCall.result.errors = AllMisses(validateCall.rules, validateCall.tokens, 1)
     /\ validateCall.result.valid
          <=> AllMisses(validateCall.rules, validateCall.tokens, 1) = <<>>

\* a rule list with the severities replaced by those of sev, rule by rule
WithSeverities(rules, sev) ==
  [i \in 1..Len(rules) |->
     IF rules[i].given THEN [rules[i] EXCEPT !.severity = sev[i]] ELSE rules[i]]

C23_NonObjectRejectedDisabledAlwaysValid ==
  validateCall.by = "validateTokens" =>
    /\ (config.validation.enabled /\ validateCall.tokens.t \notin {"obj", "arr"}) =>
         /\ validateCall.result
              = [valid |-> FALSE,
                 errors |-> <<Violation(<<>>, "Tokens must be a valid object")>>]
         /\ config.validation.rules = validateCall.rules
    /\ (config.validation.enabled /\ validateCall.tokens.t = "arr") =>
         \A i \in 1..Len(validateCall.result.errors) :
           validateCall.result.errors[i].at # <<>>
    /\ ~config.validation.enabled =>
         /\ validateCall.result = [valid |-> TRUE, errors |-> <<>>]
         /\ config.validation.rules = validateCall.rules

\* C23's case: a string is given to a kit whose rules every key would fail, one
\* of them with a RegExp whose lastIndex an earlier call left above 0
C23_Witness ==
  /\ validateCall.by = "validateTokens"
  /\ config.validation.enabled
  /\ validateCall.tokens = Str(<<"1">>)
  /\ Len(validateCall.rules) = MaxRules
  /\ Complete(validateCall.rules[1])
  /\ validateCall.rules[1].pattern[1].lastIndex > 0
  /\ ~validateCall.result.valid
  /\ Len(validateCall.result.errors) = 1

\* C24: prefetchThemes(names) returns normally whatever happens to the
\* resolutions; every named registered theme (every registered theme when no
\* name is given) whose resolution succeeds has a cache entry afterwards, also
\* when a theme before it in the list failed to resolve, and a theme whose
\* resolution fails gets none; the registry, the active theme and the persisted
\* name are unchanged and no listener is called.
C24_PrefetchResolvesEachAndSwallowsFailures ==
  \A themeNames \in PrefetchLists \cup {<<n, m>> : n, m \in AllNames} :
    LET r == prefetchThemes(Kit, config, themeNames)
        targets == IF Len(themeNames) > 0 THEN themeNames
                   ELSE getAvailableThemes(themes)
    IN /\ r.ok
       /\ r.k.themes = themes
       /\ r.k.currentTheme = currentTheme
       /\ r.k.storage = storage
       /\ r.k.calls = <<>>
       /\ \A n \in AllNames : resolvedTokenCache[n] # Undefined =>
                                r.k.cache[n] = resolvedTokenCache[n]
       /\ \A i \in 1..Len(targets) :
            HasTheme(themes, targets[i]) =>
              LET alone == resolveTokens(themes, config, resolvedTokenCache,
                                         GetTheme(themes, targets[i]), {})
              IN IF alone.ok
                 THEN r.k.cache[targets[i]] = alone.val
                 ELSE r.k.cache[targets[i]] = Undefined

\* C24's case: with a theme active and a listener subscribed, the first of two
\* named themes fails to resolve and the second, not cached before, is cached by
\* the call
C24_Witness ==
  /\ currentTheme # ""
  /\ listeners # <<>>
  /\ \E n, m \in CoreNames :
       /\ n # m /\ HasTheme(themes, n) /\ HasTheme(themes, m)
       /\ ~resolveTokens(themes, config, resolvedTokenCache, GetTheme(themes, n), {}).ok
       /\ resolvedTokenCache[m] = Undefined
       /\ prefetchThemes(Kit, config, <<n, m>>).k.cache[m] # Undefined

\* the value found by following the segments of a dot-path through the objects
\* of a tree: Undefined as soon as a segment is not a key of the object reached,
\* or what is reached is not an object
RECURSIVE Follow(_, _)
Follow(node, segs) ==
  IF segs = <<>>
  THEN node
  ELSE IF node.t = "obj" /\ Len(Head(segs)) = 1 /\ HasKey(node, Head(segs)[1])
  THEN Follow(Get(node, Head(segs)[1]), Tail(segs))
  ELSE Undefined

\* C25: getToken(path, themeName) returns the value found by following the
\* segments of path through the resolved tokens of the named theme (of the
\* active theme when no name is given), and undefined when a segment is absent
\* or the theme is not registered; given that the tokens resolve, it does not
\* throw.
C25_GetTokenFollowsPathOrUndefined ==
  \A path \in TokenPaths, name \in {""} \cup AllNames :
    LET tokens == getTokens(Kit, config, name)
        r == getToken(Kit, config, path, name)
        targetTheme == IF name # "" THEN name ELSE currentTheme
    IN tokens.ok =>
         /\ r.ok
         /\ r.ret = Follow(tokens.ret, split(path))
         /\ ~HasTheme(themes, targetTheme) => r.ret = Undefined

\* ------------------------------------------------------------------ C26

\* the names getAvailableThemes() lists
Available(k) == {k.themes[i].name : i \in 1..Len(k.themes)}

\* the themes a tokens option given in one of the forms asks for
Asked(source, defaultTheme) ==
  CASE source.form = "tree" -> {defaultTheme}
    [] source.form = "mapping" -> {source.value.o[i].k : i \in 1..Len(source.value.o)}
    [] OTHER -> {}

\* what the constructor returns for a tokens option and a defaultTheme over the
\* store as it is
Constructed(source, defaultTheme) ==
  constructor(config, storage, [storeThrows |-> storeFails, throwAt |-> 0],
              source.value, defaultTheme)

\* C26: a kit constructed with a tokens option has registered one theme under
\* defaultTheme's name when the option is a single token tree, one theme per key
\* when it is a mapping of theme name to token tree, so that getAvailableThemes()
\* lists every key of the mapping, and no theme when it is a string
C26_BootstrapRegistersTreeOrEachEntry ==
  \A source \in TokenSources, defaultTheme \in CoreNames :
    LET r == Constructed(source, defaultTheme)
    IN (r.ok /\ source.form \in {"tree", "mapping", "path"})
         => Available(r.k) = Asked(source, defaultTheme)

\* ------------------------------------------------------------------ C27

KeySet(obj) == {obj.o[i].k : i \in 1..Len(obj.o)}

\* result is what merging override into base has to give: an object with the keys
\* of both, each once; a key of base alone keeps base's value; a key of override
\* holds the merge of the two values when both are plain objects, and override's
\* value otherwise
RECURSIVE MergedAs(_, _, _)
MergedAs(result, base, override) ==
  /\ result.t = "obj"
  /\ KeySet(result) = KeySet(base) \cup KeySet(override)
  /\ Len(result.o) = Cardinality(KeySet(result))
  /\ \A key \in KeySet(base) \ KeySet(override) : Get(result, key) = Get(base, key)
  /\ \A key \in KeySet(override) :
       IF Get(override, key).t = "obj" /\ Get(base, key).t = "obj"
       THEN MergedAs(Get(result, key), Get(base, key), Get(override, key))
       ELSE Get(result, key) = Get(override, key)

\* C27: mergeTokens(base, override) keeps every key that only base has; a key of
\* override holds the recursive merge of the two values when both are plain
\* objects, and otherwise override's value whole, be it an array, a string or null
C27_MergeIsRecursiveForObjectsElseReplaces ==
  mergeCall.ran => MergedAs(mergeCall.result, mergeCall.base, mergeCall.override)

\* an object under y replaced by an array, and under x two objects merged two
\* levels deep, keeping a key that only base has
C27_Witness ==
  /\ mergeCall.ran
  /\ Get(mergeCall.base, "y").t = "obj"
  /\ Get(mergeCall.override, "y").t = "arr"
  /\ Get(mergeCall.result, "y") = Get(mergeCall.override, "y")
  /\ Get(Get(mergeCall.base, "x"), "z") = Obj(<<Entry("w", Str(<<"1">>))>>)
  /\ Get(Get(mergeCall.override, "x"), "z") = Obj(<<Entry("x", Str(<<"2">>))>>)
  /\ Get(Get(mergeCall.result, "x"), "z")
       = Obj(<<Entry("w", Str(<<"1">>)), Entry("x", Str(<<"2">>))>>)

\* ------------------------------------------------------------------ C28

\* how many of the calls went to the listener
CallsTo(calls, listener) ==
  Cardinality({i \in 1..Len(calls) : calls[i].listener = listener})

\* C28: once the unsubscribe function of a listener has been called, a switch,
\* successful or not, does not invoke that listener, and a switch that returns
\* normally has notified every other subscribed listener exactly once
C28_UnsubscribedListenerIsNotInvoked ==
  \A listener \in ListenerIds :
    LET rest == unsubscribe(listeners, listener)
    IN \A name \in AllNames, customTokens \in {Undefined} \cup Tokens,
          throwAt \in 0..Len(rest) :
         LET r == switch(Kit, config, rest, [storeThrows |-> storeFails,
                                             throwAt |-> throwAt], name, customTokens)
         IN /\ CallsTo(r.k.calls, listener) = 0
            /\ r.ok =>
                 \A i \in 1..Len(listeners) :
                   listeners[i] # listener => CallsTo(r.k.calls, listeners[i]) = 1

\* two listeners are subscribed; after the first has unsubscribed, a switch
\* succeeds and calls the second alone
C28_Witness ==
  /\ Len(listeners) = 2
  /\ \E name \in AllNames :
       LET r == switch(Kit, config, unsubscribe(listeners, listeners[1]), NoFault,
                       name, Undefined)
       IN /\ r.ok
          /\ Len(r.k.calls) = 1
          /\ r.k.calls[1].listener = listeners[2]

\* ------------------------------------------------------------------ C29

\* the token file is as the rules' messages ask: every key follows the naming
\* convention, every string below colors is a hex or rgb colour and every string
\* below spacing carries a unit
Conforming(tokens) ==
  /\ tokens.t = "obj"
  /\ \A i \in 1..Len(KeyPaths(tokens, <<>>, 1)) :
       MatchEnd("naming", Spelling(KeyPaths(tokens, <<>>, 1)[i].key)) > 0
  /\ \A leaf \in Leaves(tokens, <<>>) :
       /\ (Len(leaf.path) > 1 /\ leaf.path[1] = "colors") =>
            leaf.value.t = "str" /\ MatchEnd("color", leaf.value.s) > 0
       /\ (Len(leaf.path) > 1 /\ leaf.path[1] = "spacing") =>
            leaf.value.t = "str" /\ MatchEnd("spacing", leaf.value.s) > 0

\* C29: the validate command run on a conforming token file, such as the
\* README's tokens.json, reports that the tokens are valid and does not exit
\* with failure
C29_ValidateCommandAcceptsConformingTokens ==
  (validateCall.by = "validateCommand" /\ Conforming(validateCall.tokens)) =>
    /\ validateCall.result.log = "Tokens are valid!"
    /\ validateCall.result.exit = 0

\* ------------------------------------------------------------------ C30

OnExtendsCycle(reg, name) ==
  HasTheme(reg, name) /\ name \in Ancestors(reg, name, Len(reg))

\* C31: resolving a registered theme that extends itself or that belongs to a
\* pair of registered themes extending each other never completes, however the
\* themes came to be registered and resolved: the recursion over extends ends
\* in the overflow of the call stack
C31_ExtendsCycleNeverResolves ==
  \A name \in CoreNames :
    OnExtendsCycle(themes, name) =>
      LET r == resolveTokens(themes, config, resolvedTokenCache, GetTheme(themes, name), {})
      IN ~r.ok /\ r.err = "RangeError"

\* ------------------------------------------------------------------ C32

\* the tree with the keys of every object in the opposite order
RECURSIVE Reversed(_)
Reversed(value) ==
  IF value.t = "obj"
  THEN Obj([i \in 1..Len(value.o) |->
              Entry(value.o[Len(value.o) + 1 - i].k,
                    Reversed(value.o[Len(value.o) + 1 - i].n))])
  ELSE value

\* C32: resolveAliases looks the targets up in the tree as it was given, never in
\* what it has resolved so far: the call on the tree with its keys in the
\* opposite order returns or fails as the call on the tree does, and when they
\* return every key holds the same value in both results, which for an alias is
\* the value its target stands for in the tree as given
C32_LookupInSnapshotWhateverTheOrder ==
  aliasCall.ran =>
    LET r == aliasCall.result
        rev == resolveAliases(Reversed(aliasCall.tokens), aliasCall.maxDepth)
    IN /\ rev.ok = r.ok
       /\ r.ok =>
            /\ SameTree(rev.val, r.val)
            /\ \A l \in AliasLeaves(aliasCall.tokens) :
                 ValueAt(rev.val, l.path)
                   = FullyResolved(aliasCall.tokens, l.value, aliasCall.maxDepth + 1)

\* a call returns for a tree in which an alias comes before its target, an
\* alias of that alias after it, and a chain of three aliases ends at a string
C32_Witness ==
  /\ aliasCall.ran
  /\ aliasCall.result.ok
  /\ Get(aliasCall.tokens, "a") = Ref(<<"b">>)
  /\ Get(aliasCall.tokens, "b") = Str(<<"1">>)
  /\ Get(aliasCall.tokens, "c") = Ref(<<"a">>)
  /\ ValueAt(aliasCall.tokens, <<"d", "e">>) = Ref(<<"c">>)
  /\ Get(aliasCall.result.val, "a") = Str(<<"1">>)
  /\ Get(aliasCall.result.val, "c") = Str(<<"1">>)
  /\ ValueAt(aliasCall.result.val, <<"d", "e">>) = Str(<<"1">>)

\* ------------------------------------------------------------------ C33

C34_ReregisteringActiveThemeIsSilent ==
  \A tokens \in Tokens, env \in Envs :
    (currentTheme # "" /\ HasTheme(themes, currentTheme)) =>
      LET theme == Theme(currentTheme, tokens, "")
          r == registerTheme(Kit, config, listeners, env, theme)
          fresh == resolveTokens(PutTheme(themes, theme), config, EmptyCache, theme, {})
          now == getCurrentTokens(r.k, config)
      IN /\ r.ok
         /\ getCurrentTheme(r.k) = currentTheme
         /\ r.k.storage = storage
         /\ r.k.calls = <<>>
         /\ now.ok = fresh.ok
         /\ now.ok => now.ret = fresh.val

\* a theme is active and registered, a listener is subscribed, and registering
\* other tokens under the active name changes what getCurrentTokens() returns
\* without a call to the listener
C34_Witness ==
  /\ currentTheme # ""
  /\ HasTheme(themes, currentTheme)
  /\ Len(listeners) > 0
  /\ \E tokens \in Tokens :
       LET r == registerTheme(Kit, config, listeners, NoFault,
                              Theme(currentTheme, tokens, ""))
       IN /\ r.ok
          /\ r.k.calls = <<>>
          /\ getCurrentTokens(Kit, config).ok
          /\ getCurrentTokens(r.k, config).ok
          /\ getCurrentTokens(r.k, config).ret # getCurrentTokens(Kit, config).ret

\* ------------------------------------------------------------------ C35

\* the errors of a resolution: an alias without target, on a cycle or too deep,
\* and the overflow of the call stack
ResolutionErrors == {"Unresolved", "Circular", "MaxDepth", "RangeError"}

\* C35: when the tokens do not resolve in the switch that registerTheme makes
\* for a first theme, or that unregisterTheme makes to the fallback theme, the
\* call fails with the resolution's error and the registry stays changed: the
\* theme is registered, respectively removed; the active name and the store are
\* as before, so that the active name may be that of the removed theme, and no
\* listener is called
C35_FailedInnerSwitchKeepsRegistryChange ==
  \A env \in Envs :
    /\ \A name \in ThemeNames, tokens \in Tokens :
         LET theme == Theme(name, tokens, "")
             k1 == registered(Kit, theme)
             res == resolveTokens(k1.themes, config, k1.cache, theme, {})
         IN (Len(k1.themes) = 1 /\ currentTheme = "" /\ ~res.ok) =>
              LET r == registerTheme(Kit, config, listeners, env, theme)
              IN /\ ~r.ok
                 /\ r.err = res.err
                 /\ r.err \in ResolutionErrors
                 /\ r.k.themes = <<theme>>
                 /\ getCurrentTheme(r.k) = ""
                 /\ r.k.storage = storage
                 /\ r.k.calls = <<>>
    /\ \A n \in RegisteredNames :
         LET k1 == unregistered(Kit, n)
         IN (n = currentTheme /\ Len(k1.themes) > 0) =>
              LET res == resolveTokens(k1.themes, config, k1.cache, k1.themes[1], {})
                  r == unregisterTheme(Kit, config, listeners, env, n)
              IN ~res.ok =>
                   /\ ~r.ok
                   /\ r.err = res.err
                   /\ r.err \in ResolutionErrors
                   /\ r.k.themes = DeleteTheme(themes, n)
                   /\ getCurrentTheme(r.k) = n
                   /\ ~HasTheme(r.k.themes, getCurrentTheme(r.k))
                   /\ r.k.storage = storage
                   /\ r.k.calls = <<>>

\* a listener is subscribed and the active theme is unregistered while the
\* first remaining theme does not resolve: the call fails and the active name is
\* that of a theme that is gone
C35_Witness ==
  /\ Len(listeners) > 0
  /\ currentTheme \in RegisteredNames
  /\ Len(themes) > 1
  /\ LET r == unregisterTheme(Kit, config, listeners, NoFault, currentTheme)
     IN /\ ~r.ok
        /\ r.err \in ResolutionErrors
        /\ ~HasTheme(r.k.themes, getCurrentTheme(r.k))

\* ------------------------------------------------------------------ C36

\* the names of the themes a listener was called with, in the order of the calls
ThemesToldTo(calls, listener) ==
  LET mine == SelectSeq(calls, LAMBDA c : c.listener = listener)
  IN [i \in 1..Len(mine) |-> mine[i].theme]

\* C36: when a listener calls switch(m) while it is notified of switch(n), every
\* listener registered after it is called for m first and for n last, and once the
\* outer switch has returned the active and the persisted theme are m
C36_ReenteredSwitchLeavesInnerThemeActive ==
  \A name \in AllNames, inner \in AllNames, at \in 1..Len(listeners) :
    LET r == switchReentered(Kit, config, listeners,
                             [storeThrows |-> storeFails, throwAt |-> 0], name,
                             Undefined, at, inner)
    IN r.ok =>
         /\ getCurrentTheme(r.k) = inner
         /\ r.k.storage = inner
         /\ \A i \in (at + 1)..Len(listeners) :
              ThemesToldTo(r.k.calls, listeners[i]) = <<inner, name>>

\* two listeners are subscribed and the first answers switch("a") with
\* switch("b"): the second is told of b, then of a, and b is active and stored
C36_Witness ==
  /\ Len(listeners) = 2
  /\ LET r == switchReentered(Kit, config, listeners, NoFault, "a", Undefined, 1, "b")
     IN /\ r.ok
        /\ getCurrentTheme(r.k) = "b"
        /\ r.k.storage = "b"
        /\ ThemesToldTo(r.k.calls, listeners[2]) = <<"b", "a">>

\* ------------------------------------------------------------------ C37

\* the values the store can hold under the persistence key: nothing or a name
StoredValues == {""} \cup AllNames

\* C37: over a store whose set does not throw and which the kit alone writes,
\* with persistence enabled the stored name is the active theme's from the first
\* switch that sets one on, whatever operation completed last; with persistence
\* disabled no operation writes the store and a kit is constructed the same
\* whatever the store holds; no operation empties the store
C37_StoreFollowsActiveTheme ==
  /\ []((config.persistence /\ getCurrentTheme(Kit) # "") =>
          storage = getCurrentTheme(Kit))
  /\ [](~config.persistence =>
          \A held \in StoredValues, source \in TokenSources, defaultTheme \in CoreNames :
            /\ getPersistedTheme(config, held) = ""
            /\ \E r \in {constructor(config, held, NoFault, source.value, defaultTheme)} :
                 r = [constructor(config, "", NoFault, source.value, defaultTheme)
                        EXCEPT !.k.storage = held])
  /\ [][~config.persistence => storage' = storage]_vars
  /\ [][storage # "" => storage' # ""]_vars

\* persistence is enabled, the active theme was given with custom tokens under a
\* name that is not registered, and the store holds that name
C37_Witness ==
  /\ config.persistence
  /\ getCurrentTheme(Kit) = GhostName
  /\ ~HasTheme(themes, GhostName)
  /\ Len(themes) > 0
  /\ storage = GhostName

\* ------------------------------------------------------------------ C38

\* C38: a tree that resolveAliases returns has no alias string at a leaf outside
\* arrays, and resolveAliases called with it, whatever maxDepth, returns it again
C38_ResultHasNoAliasAndIsFixedPoint ==
  (aliasCall.ran /\ aliasCall.result.ok) =>
    LET out == aliasCall.result.val
    IN /\ AliasLeaves(out) = {}
       /\ \A maxDepth \in MaxDepths :
            \E again \in {resolveAliases(out, maxDepth)} :
              /\ again.ok
              /\ again.val = out

\* the call returned for a tree whose aliases are at the root, inside the nested
\* object and behind another alias, next to an array that holds an alias string
C38_Witness ==
  /\ aliasCall.ran
  /\ aliasCall.result.ok
  /\ LET tokens == aliasCall.tokens
         out == aliasCall.result.val
     IN /\ Get(tokens, "a") = Ref(<<"b">>)
        /\ Get(tokens, "b") = Ref(<<"d", ".", "e">>)
        /\ ValueAt(tokens, <<"d", "e">>) = Ref(<<"c">>)
        /\ Get(tokens, "c") = Arr(<<"{", "a", "}">>)
        /\ out # tokens
        /\ resolveAliases(out, 0).val = out

\* ------------------------------------------------------------------ C39

\* how many objects are nested in a value, the value itself included
RECURSIVE Height(_)
Height(value) ==
  IF value.t = "obj"
  THEN 1 + (IF value.o = <<>> THEN 0
            ELSE CHOOSE h \in {Height(value.o[i].n) : i \in 1..Len(value.o)} :
                   \A j \in 1..Len(value.o) : Height(value.o[j].n) <= h)
  ELSE 0

\* the frames of the stack that wait for the target of an alias
Hopping(frames) == {j \in 1..Len(frames) : frames[j].pc = "alias"}

\* the depth counter bounds the stack: no call is made past maxDepth + 1, the calls
\* that follow an alias have depths that differ, the in-flight set holds their
\* paths alone while the call runs, and between two of them the stack descends
\* into one value of the tree
StackBounded ==
  LET frames == resolveRun.frames
      maxDepth == aliasCall.maxDepth
  IN /\ \A j \in 1..Len(frames) : frames[j].depth <= maxDepth + 1
     /\ \A j \in Hopping(frames), l \in Hopping(frames) :
          j < l => frames[j].depth < frames[l].depth
     /\ Cardinality(Hopping(frames)) <= maxDepth + 1
     /\ ~aliasCall.ran =>
          resolveRun.resolving \subseteq {frames[j].path : j \in Hopping(frames)}
     /\ Len(frames) <= (maxDepth + 2) * (Height(aliasCall.tokens) + 1)

ThrowKinds == {"Unresolved", "Circular", "MaxDepth"}

\* C39: for every tree and every maxDepth >= 0 the call of resolveAliases comes to
\* an end, with a tree without alias leaf or with the unresolved, the circular or
\* the max-depth error; until then the stack of resolveValue stays within the
\* bound the depth counter sets, also where an alias names an object that holds
\* aliases; the run ends as the function resolveAliases says
C39_ResolveAliasesTerminates ==
  /\ <>aliasCall.ran
  /\ [](aliasCall.ran =>
          /\ resolveRun.frames = <<>>
          /\ IF aliasCall.result.ok
             THEN AliasLeaves(aliasCall.result.val) = {}
             ELSE aliasCall.result.err \in ThrowKinds
          /\ aliasCall.result = resolveAliases(aliasCall.tokens, aliasCall.maxDepth))
  /\ []StackBounded

\* a is an alias of the object d, whose leaf e is an alias of d again: with the
\* largest maxDepth the run went through every depth and ended with the
\* max-depth error
C39_Witness ==
  /\ aliasCall.ran
  /\ aliasCall.maxDepth = MaxDepth + 1
  /\ Get(aliasCall.tokens, "a") = Ref(<<"d">>)
  /\ ValueAt(aliasCall.tokens, <<"d", "e">>) = Ref(<<"d">>)
  /\ aliasCall.result.err = "MaxDepth"
  /\ aliasCall.result.at = <<"d">>
====
